---------------------------- MODULE Spec2Model ----------------------------
(***************************************************************************)
(* A model of the validation core of valibot: the pipe engine              *)
(* (executePipe, executePipeAsync), the composite schemas (object, array,  *)
(* tuple, set, map, record, union and their async variants) and the        *)
(* result / issue records they exchange.                                   *)
(*                                                                         *)
(* JavaScript values are tagged records, so that values of different       *)
(* kinds can be compared.  A parse result is the record                    *)
(* [tag, output, issues]: tag "ok" is {success: true, output} (or          *)
(* {output}), tag "err" is {success: false, issues} (or {issues}), and     *)
(* tag "raw" is a JavaScript value that is no result at all but is         *)
(* returned where a result is expected; reading .success or .issues of it  *)
(* yields undefined.                                                       *)
(***************************************************************************)
EXTENDS Integers, Sequences, FiniteSets, TLC

VARIABLES
    pipeRun,    \* the frame of one executePipe / executePipeAsync call
    parseRun,   \* the frame of one schema.parse call
    instance    \* one object schema instance and the parses made of it

vars == <<pipeRun, parseRun, instance>>

---------------------------------------------------------------------------
(* Bounds of the model *)

MaxPipeLen == 3      \* longest pipe that is enumerated
MaxNum == 2          \* numbers 0..MaxNum are the numeric inputs
MaxItems == 2        \* most elements of an input array or set

---------------------------------------------------------------------------
(* JavaScript values *)

Undefined == [t |-> "undefined"]
Null == [t |-> "null"]
Num(n) == [t |-> "number", n |-> n]
Str(s) == [t |-> "string", s |-> s]
Bool(b) == [t |-> "boolean", b |-> b]
\* An array: its elements in index order.
Arr(a) == [t |-> "array", a |-> a]
\* A plain object: its own enumerable entries <<key, value>> in insertion order.
Obj(e) == [t |-> "object", e |-> e]
\* A Set: its members in insertion order.  A Map: its entries in insertion order.
SetV(m) == [t |-> "set", m |-> m]
MapV(e) == [t |-> "map", e |-> e]
\* The values of the remaining leaf types.
BigInt(n) == [t |-> "bigint", n |-> n]
SymbolV == [t |-> "symbol"]
NaN == [t |-> "nan"]
BlobV == [t |-> "blob"]
\* A parse result held as a value (a result object stored in a container).
ResV(r) == [t |-> "result", r |-> r]

\* JavaScript truthiness: `!v` is true for undefined, null, 0, '' and false.
Falsy(v) ==
    \/ v.t \in {"undefined", "null", "nan"}
    \/ v.t \in {"number", "bigint"} /\ v.n = 0
    \/ v.t = "string" /\ v.s = ""
    \/ v.t = "boolean" /\ ~v.b

---------------------------------------------------------------------------
(* Results, issues and info records *)

Ok(v) == [tag |-> "ok", output |-> v, issues |-> <<>>]
NotOk(is) == [tag |-> "err", output |-> Undefined, issues |-> is]
\* A value that is not a result, returned in the place of one.
Raw(v) == [tag |-> "raw", output |-> v, issues |-> <<>>]
\* `result.success` and `result.issues` as the callers test them.
Success(r) == r.tag = "ok"
HasIssues(r) == r.tag = "err"

\* The parse info: `undefined` info is the record with both flags false.
Info(ae, ape) ==
    [abortEarly |-> ae, abortPipeEarly |-> ape, path |-> <<>>,
     origin |-> "", reason |-> ""]

\* getPath(path, item): the path extended by one item.
GetPath(path, item) == Append(path, item)
PathItem(schema, key, value) == [schema |-> schema, key |-> key, value |-> value]
\* getPathInfo(info, path, origin): the info of a child parse.
GetPathInfo(info, path, origin) == [info EXCEPT !.path = path, !.origin = origin]
\* getPipeInfo(info, reason): the info handed to the actions of a pipe.
GetPipeInfo(info, reason) == [info EXCEPT !.reason = reason]

\* getIssue(info, {reason, validation, message, input, issues})
GetIssue(info, reason, validation, message, input, nested) ==
    [reason |-> IF reason = "" THEN info.reason ELSE reason,
     validation |-> validation, message |-> message, input |-> input,
     path |-> info.path, origin |-> info.origin, issues |-> nested]

---------------------------------------------------------------------------
(* Pipe actions *)

MinValue(r) == [kind |-> "min_value", req |-> r]
Equal(r) == [kind |-> "equal", req |-> r]
MinLength(r) == [kind |-> "min_length", req |-> r]
MaxLength(r) == [kind |-> "max_length", req |-> r]
Size(r) == [kind |-> "size", req |-> r]
\* custom(requirement): requirement 0 rejects every input, 1 accepts every input
Custom(r) == [kind |-> "custom", req |-> r]
\* A transforming action: raises a number below r to r.
ToMinValue(r) == [kind |-> "to_min_value", req |-> r]
\* An action that reports two issues for a number below r.
Strict(r) == [kind |-> "strict", req |-> r]
\* A transforming action on strings: removes the white space around a string.
ToTrimmed == [kind |-> "to_trimmed", req |-> 0]
\* The strings of the model with white space around them.
Trim(str) == IF str = "constructor " THEN "constructor" ELSE str

ActionMessage(a) ==
    CASE a.kind = "min_value" -> "Invalid value"
      [] a.kind \in {"min_length", "max_length"} -> "Invalid length"
      [] a.kind = "size" -> "Invalid size"
      [] OTHER -> "Invalid input"

SizeOf(v) ==
    CASE v.t = "array" -> Len(v.a)
      [] v.t = "set" -> Len(v.m)
      [] v.t \in {"map", "object"} -> Len(v.e)
      [] v.t = "string" -> IF v.s = "" THEN 0 ELSE 1
      [] OTHER -> 0

ActionRejects(a, v) ==
    CASE a.kind \in {"min_value", "strict"} -> v.t = "number" /\ v.n < a.req
      [] a.kind = "equal" -> v # Num(a.req)
      [] a.kind = "min_length" -> SizeOf(v) < a.req
      [] a.kind = "max_length" -> SizeOf(v) > a.req
      [] a.kind = "size" -> SizeOf(v) # a.req
      [] a.kind = "custom" -> a.req = 0
      [] OTHER -> FALSE

ActionIssue(a, v, info) == GetIssue(info, "", a.kind, ActionMessage(a), v, <<>>)

\* action(input, info): the result of one pipe action.
ApplyAction(a, v, info) ==
    IF ActionRejects(a, v)
    THEN IF a.kind = "strict"
         THEN NotOk(<<ActionIssue(a, v, info), ActionIssue(Custom(0), v, info)>>)
         ELSE NotOk(<<ActionIssue(a, v, info)>>)
    ELSE IF a.kind = "to_min_value" /\ v.t = "number" /\ v.n < a.req
         THEN Ok(Num(a.req))
         ELSE IF a.kind = "to_trimmed" /\ v.t = "string"
         THEN Ok(Str(Trim(v.s)))
         ELSE Ok(v)

---------------------------------------------------------------------------
(* The pipe engine: executePipe and executePipeAsync *)

NoResult == [tag |-> "none", output |-> Undefined, issues |-> <<>>]

\* The frame on entry.  executePipe returns at once on an empty pipe.
PipeEnter(engine, input, pipe, info) ==
    [engine |-> engine, input |-> input, pipe |-> pipe, info |-> info,
     output |-> input, issues |-> <<>>, captured |-> FALSE,
     idx |-> 1, inflight |-> 0, pending |-> NoResult, calls |-> <<>>,
     pc |-> IF engine = "sync" /\ Len(pipe) = 0 THEN "done" ELSE "loop",
     result |-> IF engine = "sync" /\ Len(pipe) = 0 THEN Ok(input) ELSE NoResult]

\* The loop head: leave the loop after the last action and return.
PipeExit(f) ==
    [f EXCEPT !.pc = "done",
              !.result = IF f.engine = "sync"
                         THEN (IF f.captured THEN NotOk(f.issues) ELSE Ok(f.output))
                         ELSE (IF Len(f.issues) > 0 THEN NotOk(f.issues) ELSE Ok(f.output))]

\* A variant that hands every action the pipe's input.
PipeInvoke_OnInput(f) ==
    LET r == ApplyAction(f.pipe[f.idx], f.input, f.info) IN
    [f EXCEPT !.inflight = f.idx, !.pending = r,
              !.calls = Append(f.calls, [pos |-> f.idx, arg |-> f.input, res |-> r])]

\* `action(output, info)`: the action at idx is called with the current output.
PipeInvoke(f) ==
    LET r == ApplyAction(f.pipe[f.idx], f.output, f.info) IN
    [f EXCEPT !.inflight = f.idx, !.pending = r,
              !.calls = Append(f.calls, [pos |-> f.idx, arg |-> f.output, res |-> r])]

\* A variant that stops a pipe only under abortEarly.
PipeAborts_OnlyAbortEarly(f) == f.info.abortEarly

PipeAborts(f) == f.info.abortEarly \/ f.info.abortPipeEarly

\* A variant of the loop body that keeps only the latest failure's issues.
SettleSync_Overwrite(f) ==
    LET r == f.pending IN
    IF HasIssues(r)
    THEN LET g == [f EXCEPT !.issues = r.issues, !.captured = TRUE,
                            !.inflight = 0, !.pending = NoResult]
         IN IF f.info.abortEarly \/ f.info.abortPipeEarly
            THEN [g EXCEPT !.pc = "done", !.result = NotOk(r.issues)]
            ELSE [g EXCEPT !.idx = f.idx + 1]
    ELSE [f EXCEPT !.output = r.output, !.idx = f.idx + 1,
                   !.inflight = 0, !.pending = NoResult]

\* executePipe: the loop body after the action returned.
SettleSync(f) ==
    LET r == f.pending IN
    IF HasIssues(r)
    THEN LET is == IF f.captured THEN f.issues \o r.issues ELSE r.issues
             g == [f EXCEPT !.issues = is, !.captured = TRUE,
                            !.inflight = 0, !.pending = NoResult]
         IN IF PipeAborts(f)
            THEN PipeExit(g)
            ELSE [g EXCEPT !.idx = f.idx + 1]
    ELSE [f EXCEPT !.output = r.output, !.idx = f.idx + 1,
                   !.inflight = 0, !.pending = NoResult]

\* A variant of the async loop body that calls a failed action again.
SettleAsync_RetriesFailed(f) ==
    LET r == f.pending IN
    IF ~Success(r)
    THEN IF PipeAborts(f)
         THEN [f EXCEPT !.pc = "done", !.result = r,
                        !.inflight = 0, !.pending = NoResult]
         ELSE [f EXCEPT !.issues = f.issues \o r.issues,
                        !.inflight = 0, !.pending = NoResult]
    ELSE [f EXCEPT !.output = r.output, !.idx = f.idx + 1,
                   !.inflight = 0, !.pending = NoResult]

\* executePipeAsync: the loop body after the awaited action resolved.
SettleAsync(f) ==
    LET r == f.pending IN
    IF ~Success(r)
    THEN IF PipeAborts(f)
         THEN [f EXCEPT !.pc = "done", !.result = r,
                        !.inflight = 0, !.pending = NoResult]
         ELSE [f EXCEPT !.issues = f.issues \o r.issues, !.idx = f.idx + 1,
                        !.inflight = 0, !.pending = NoResult]
    ELSE [f EXCEPT !.output = r.output, !.idx = f.idx + 1,
                   !.inflight = 0, !.pending = NoResult]

PipeSettle(f) == IF f.engine = "sync" THEN SettleSync(f) ELSE SettleAsync(f)

\* One step of a running frame.
PipeStep(f) ==
    IF f.inflight # 0 THEN PipeSettle(f)
    ELSE IF f.idx > Len(f.pipe) THEN PipeExit(f)
    ELSE PipeInvoke(f)

RECURSIVE PipeRunFrom(_)
PipeRunFrom(f) == IF f.pc = "done" THEN f ELSE PipeRunFrom(PipeStep(f))

\* executePipe(input, pipe, info, reason) run to its return.
ExecutePipe(input, pipe, info, reason) ==
    PipeRunFrom(PipeEnter("sync", input, pipe, GetPipeInfo(info, reason)))
\* executePipeAsync(input, pipe, info) run to its resolution.
ExecutePipeAsync(input, pipe, info) ==
    PipeRunFrom(PipeEnter("async", input, pipe, info))

---------------------------------------------------------------------------
(* Container helpers *)

\* input[key] of a plain object: the value of the entry, or undefined.
RECURSIVE LookupFrom(_, _, _)
LookupFrom(e, key, i) ==
    IF i > Len(e) THEN Undefined
    ELSE IF e[i][1] = key THEN e[i][2] ELSE LookupFrom(e, key, i + 1)
Lookup(obj, key) == LookupFrom(obj.e, key, 1)

HasKey(e, key) == \E i \in DOMAIN e : e[i][1] = key

\* output[key] = val, output.set(key, val): replace the entry or append it.
PutEntry(e, key, val) ==
    IF HasKey(e, key)
    THEN [i \in DOMAIN e |-> IF e[i][1] = key THEN <<key, val>> ELSE e[i]]
    ELSE Append(e, <<key, val>>)

\* output.add(val) of a Set.
AddMember(m, val) == IF \E i \in DOMAIN m : m[i] = val THEN m ELSE Append(m, val)

\* output[index] = val of an array (index from 0); holes read as undefined.
SetAt(a, index, val) ==
    [i \in 1..(IF index + 1 > Len(a) THEN index + 1 ELSE Len(a)) |->
        IF i = index + 1 THEN val ELSE IF i <= Len(a) THEN a[i] ELSE Undefined]

\* The first character of the strings of the model.
FirstChar(str) == IF str = "ab" THEN "a" ELSE str

\* value[0] as JavaScript evaluates it.
Index0(v) ==
    CASE v.t = "string" -> IF v.s = "" THEN Undefined ELSE Str(FirstChar(v.s))
      [] v.t = "array" -> IF Len(v.a) = 0 THEN Undefined ELSE v.a[1]
      [] v.t = "object" -> Lookup(v, "0")
      [] OTHER -> Undefined

---------------------------------------------------------------------------
(* Schemas *)

NoSchema == [kind |-> "none", async |-> FALSE]
Never == [kind |-> "never", async |-> FALSE]
VoidType == [kind |-> "void", async |-> FALSE]
\* special(check, pipe): check is "number", "string" or "any"
Special(check, pipe) == [kind |-> "special", async |-> FALSE, check |-> check, pipe |-> pipe]
LiteralAsync(lit) == [kind |-> "literal", async |-> TRUE, literal |-> lit]
VoidTypeAsync == [kind |-> "void", async |-> TRUE]
Bigint(pipe) == [kind |-> "bigint", async |-> FALSE, pipe |-> pipe]
Symbol == [kind |-> "symbol", async |-> FALSE]
SymbolAsync == [kind |-> "symbol", async |-> TRUE]
Nan == [kind |-> "nan", async |-> FALSE]
NanAsync == [kind |-> "nan", async |-> TRUE]
BlobAsync(pipe) == [kind |-> "blob", async |-> TRUE, pipe |-> pipe]
\* nonNullableAsync(wrapped, error)
NonNullableAsync(wrapped) == [kind |-> "non_nullable", async |-> TRUE, wrapped |-> wrapped]
\* A schema created with an error message argument.
WithError(s, error) == s @@ [error |-> error]
\* object(shape, pipe): entries are the shape's <<key, schema>> in declaration order;
\* impl "parse" is the object schema with parse, "_parse" the one with _parse.
ObjectSchema(impl, async, entries, pipe) ==
    [kind |-> "object", async |-> async, impl |-> impl, entries |-> entries, pipe |-> pipe]
ArraySchema(async, item, pipe) ==
    [kind |-> "array", async |-> async, item |-> item, pipe |-> pipe]
TupleSchema(async, items, rest, pipe) ==
    [kind |-> "tuple", async |-> async, items |-> items, rest |-> rest, pipe |-> pipe]
SetSchema(async, value, pipe) ==
    [kind |-> "set", async |-> async, value |-> value, pipe |-> pipe]
MapSchema(async, key, value, pipe) ==
    [kind |-> "map", async |-> async, key |-> key, value |-> value, pipe |-> pipe]
RecordSchema(async, key, value, pipe) ==
    [kind |-> "record", async |-> async, key |-> key, value |-> value, pipe |-> pipe]
UnionSchema(async, options) ==
    [kind |-> "union", async |-> async, options |-> options]

\* BLOCKED_KEYS of record/values.ts
BLOCKED_KEYS == {"__proto__", "prototype", "constructor"}

SpecialCheck(check, v) ==
    CASE check = "number" -> v.t = "number"
      [] check = "string" -> v.t = "string"
      [] OTHER -> TRUE

\* A tuple gate that demands the declared length with or without a rest schema.
TupleGate_ExactLength(s, v) ==
    /\ v.t = "array"
    /\ Len(s.items) = Len(v.a)

\* The type gate of a schema: TRUE when the input passes.
TupleGate(s, v) ==
    /\ v.t = "array"
    /\ ~(s.rest = NoSchema /\ Len(s.items) # Len(v.a))
    /\ ~(s.rest # NoSchema /\ Len(s.items) > Len(v.a))

Gate(s, v) ==
    CASE s.kind = "never" -> FALSE
      [] s.kind = "void" -> v = Undefined
      [] s.kind = "special" -> SpecialCheck(s.check, v)
      [] s.kind = "literal" -> v = s.literal
      [] s.kind = "bigint" -> v.t = "bigint"
      [] s.kind = "symbol" -> v.t = "symbol"
      [] s.kind = "nan" -> v.t = "nan"
      [] s.kind = "blob" -> v.t = "blob"
      [] s.kind \in {"object", "record"} -> v.t = "object"
      [] s.kind = "array" -> v.t = "array"
      [] s.kind = "tuple" -> TupleGate(s, v)
      [] s.kind = "set" -> v.t = "set"
      [] s.kind = "map" -> v.t = "map"
      [] OTHER -> TRUE

\* error || 'Invalid type'
ErrorOrDefault(s) ==
    IF "error" \in DOMAIN s /\ s.error # "" THEN s.error ELSE "Invalid type"

\* A type issue that ignores the error message argument.
GateIssue_DefaultMessage(s, v, info) ==
    GetIssue(info, "type", s.kind, "Invalid type", v, <<>>)

GateIssue(s, v, info) == GetIssue(info, "type", s.kind, ErrorOrDefault(s), v, <<>>)

---------------------------------------------------------------------------
(* The children of a composite: one task per child parse, in the order the
   code starts them *)

Task(schema, input, info, slot, side, entry) ==
    [schema |-> schema, input |-> input, info |-> info,
     slot |-> slot, side |-> side, entry |-> entry]

\* A child info whose path item holds the key where the value belongs.
ChildInfo_KeyAsValue(s, v, info, key, value, origin) ==
    GetPathInfo(info, GetPath(info.path, PathItem(s.kind, key, key)), origin)

ChildInfo(s, v, info, key, value, origin) ==
    GetPathInfo(info, GetPath(info.path, PathItem(s.kind, key, value)), origin)

ObjectTasks(s, v, info) ==
    [i \in DOMAIN s.entries |->
        LET key == s.entries[i][1]
            value == Lookup(v, key)
        IN Task(s.entries[i][2], value,
                IF s.impl = "_parse" THEN info
                ELSE ChildInfo(s, v, info, Str(key), value, ""),
                Str(key), "item", i)]

ArrayTasks(s, v, info) ==
    [i \in DOMAIN v.a |->
        Task(s.item, v.a[i], ChildInfo(s, v, info, Num(i - 1), v.a[i], ""),
             Num(i - 1), "item", i)]

\* The declared items first, then (with a rest schema) the items past them.
TupleTasks(s, v, info) ==
    [i \in 1..(IF s.rest = NoSchema THEN Len(s.items) ELSE Len(v.a)) |->
        Task(IF i <= Len(s.items) THEN s.items[i] ELSE s.rest, v.a[i],
             ChildInfo(s, v, info, Num(i - 1), v.a[i], ""),
             Num(i - 1), IF i <= Len(s.items) THEN "item" ELSE "rest", i)]

SetTasks(s, v, info) ==
    [i \in DOMAIN v.m |->
        Task(s.value, v.m[i], ChildInfo(s, v, info, Num(i - 1), v.m[i], ""),
             Num(i - 1), "item", i)]

\* Map: for every entry the key parse, then the value parse.
MapTasks(s, v, info) ==
    [j \in 1..(2 * Len(v.e)) |->
        LET i == (j + 1) \div 2
            inputKey == v.e[i][1]
            inputValue == v.e[i][2]
        IN IF j % 2 = 1
           THEN Task(s.key, inputKey,
                     ChildInfo(s, v, info, inputKey, inputValue, "key"),
                     inputKey, "key", i)
           ELSE Task(s.value, inputValue,
                     ChildInfo(s, v, info, inputKey, inputValue, "value"),
                     inputKey, "value", i)]

\* Record: the entries of Object.entries(input) whose key is not blocked.
\* An entry list from which no key is filtered.
Unblocked_All(e, i) == SubSeq(e, i, Len(e))

RECURSIVE Unblocked(_, _)
Unblocked(e, i) ==
    IF i > Len(e) THEN <<>>
    ELSE IF e[i][1] \in BLOCKED_KEYS THEN Unblocked(e, i + 1)
    ELSE <<e[i]>> \o Unblocked(e, i + 1)

RecordTasks(s, v, info) ==
    LET es == Unblocked(v.e, 1) IN
    [j \in 1..(2 * Len(es)) |->
        LET i == (j + 1) \div 2
            inputKey == Str(es[i][1])
            inputValue == es[i][2]
        IN IF j % 2 = 1
           THEN Task(s.key, inputKey,
                     ChildInfo(s, v, info, inputKey, inputValue, "key"),
                     inputKey, "key", i)
           ELSE Task(s.value, inputValue,
                     ChildInfo(s, v, info, inputKey, inputValue, "value"),
                     inputKey, "value", i)]

ChildTasks(s, v, info) ==
    CASE s.kind = "object" -> ObjectTasks(s, v, info)
      [] s.kind = "array" -> ArrayTasks(s, v, info)
      [] s.kind = "tuple" -> TupleTasks(s, v, info)
      [] s.kind = "set" -> SetTasks(s, v, info)
      [] s.kind = "map" -> MapTasks(s, v, info)
      [] s.kind = "record" -> RecordTasks(s, v, info)
      [] OTHER -> <<>>

\* The fresh output container of a composite.
EmptyOutput(s) ==
    CASE s.kind \in {"object", "record"} -> Obj(<<>>)
      [] s.kind \in {"array", "tuple"} -> Arr(<<>>)
      [] s.kind = "set" -> SetV(<<>>)
      [] s.kind = "map" -> MapV(<<>>)
      [] OTHER -> Undefined

---------------------------------------------------------------------------
(* Synchronous parsing *)

NoOut == [has |-> FALSE, v |-> Undefined]
Some(v) == [has |-> TRUE, v |-> v]

\* The state of the Promise.all a parse awaits: "none", "pending", "rejected"
\* (with the thrown value) or "resolved".
NoJoin == [state |-> "none", reason |-> NoResult]

\* The frame of a composite's parse once the type gate has passed.
ParseFrame(s, v, info) ==
    [schema |-> s, input |-> v, info |-> info, tasks |-> ChildTasks(s, v, info),
     idx |-> 1, output |-> EmptyOutput(s), issues |-> <<>>, captured |-> FALSE,
     keyOut |-> NoOut, visits |-> <<>>, pc |-> "loop", result |-> NoResult,
     piped |-> FALSE, pipeCalls |-> <<>>,
     order |-> <<>>, outs |-> <<>>, join |-> NoJoin]

\* The outcome of a parse that visits no child.
LeafOutcome(s, v, info, r, piped, pipeCalls) ==
    [schema |-> s, input |-> v, info |-> info, tasks |-> <<>>,
     idx |-> 1, output |-> Undefined, issues |-> <<>>, captured |-> FALSE,
     keyOut |-> NoOut, visits |-> <<>>, pc |-> "done", result |-> r,
     piped |-> piped, pipeCalls |-> pipeCalls,
     order |-> <<>>, outs |-> <<>>, join |-> NoJoin]

Visit(t, r) == [slot |-> t.slot, side |-> t.side, entry |-> t.entry, res |-> r]

\* `return result` out of the loop.
Returned(f, r) == [f EXCEPT !.pc = "done", !.result = r]

\* A loop body that stores the input's value in place of the child's output.
ObjectAbsorb_StoresInput(f, t, r) ==
    IF ~Success(r)
    THEN IF f.info.abortEarly
         THEN Returned(f, r)
         ELSE [f EXCEPT !.issues = f.issues \o r.issues]
    ELSE [f EXCEPT !.output = Obj(PutEntry(f.output.e, t.slot.s, t.input))]

\* object.parse: the loop body after the child's parse.
ObjectAbsorb(f, t, r) ==
    IF ~Success(r)
    THEN IF f.info.abortEarly
         THEN Returned(f, r)
         ELSE [f EXCEPT !.issues = f.issues \o r.issues]
    ELSE [f EXCEPT !.output = Obj(PutEntry(f.output.e, t.slot.s, r.output))]

\* object._parse: the loop body after the child's _parse.
ObjectUAbsorb(f, t, r) ==
    IF HasIssues(r)
    THEN LET pathItem == PathItem("object", t.slot, t.input)
             moved == [i \in DOMAIN r.issues |->
                          [r.issues[i] EXCEPT !.path = <<pathItem>> \o @]]
             g == [f EXCEPT !.issues = IF f.captured THEN f.issues \o moved ELSE moved,
                            !.captured = TRUE]
         IN IF f.info.abortEarly THEN [g EXCEPT !.pc = "break"] ELSE g
    ELSE [f EXCEPT !.output = Obj(PutEntry(f.output.e, t.slot.s, r.output))]

\* array.parse: the loop body.
ArrayAbsorb(f, t, r) ==
    IF f.info.abortEarly /\ ~Success(r)
    THEN Returned(f, r)
    ELSE IF ~Success(r)
         THEN [f EXCEPT !.issues = f.issues \o r.issues]
         ELSE [f EXCEPT !.output = Arr(Append(f.output.a, r.output))]

\* tuple.parse: the loop body of the declared items and of the rest items.
TupleAbsorb(f, t, r) ==
    IF ~Success(r)
    THEN IF f.info.abortEarly
         THEN Returned(f, r)
         ELSE [f EXCEPT !.issues = f.issues \o r.issues]
    ELSE [f EXCEPT !.output = Arr(SetAt(f.output.a, t.slot.n, r.output))]

\* set.parse: the loop body.
SetAbsorb(f, t, r) ==
    IF ~Success(r)
    THEN IF f.info.abortEarly
         THEN Returned(f, r)
         ELSE [f EXCEPT !.issues = f.issues \o r.issues]
    ELSE [f EXCEPT !.output = SetV(AddMember(f.output.m, r.output))]

\* A loop body that collects a failing key under abortEarly and goes on.
MapAbsorb_KeyContinues(f, t, r) ==
    IF t.side = "key"
    THEN IF ~Success(r)
         THEN [f EXCEPT !.issues = f.issues \o r.issues, !.keyOut = NoOut]
         ELSE [f EXCEPT !.keyOut = Some(r.output)]
    ELSE IF ~Success(r)
         THEN IF f.info.abortEarly
              THEN Returned(f, r)
              ELSE [f EXCEPT !.issues = f.issues \o r.issues]
         ELSE IF f.keyOut.has
              THEN [f EXCEPT !.output = MapV(PutEntry(f.output.e, f.keyOut.v, r.output))]
              ELSE f

\* map.parse: the key parse, then the value parse and the entry.
MapAbsorb(f, t, r) ==
    IF t.side = "key"
    THEN IF ~Success(r)
         THEN IF f.info.abortEarly
              THEN Returned(f, r)
              ELSE [f EXCEPT !.issues = f.issues \o r.issues, !.keyOut = NoOut]
         ELSE [f EXCEPT !.keyOut = Some(r.output)]
    ELSE IF ~Success(r)
         THEN IF f.info.abortEarly
              THEN Returned(f, r)
              ELSE [f EXCEPT !.issues = f.issues \o r.issues]
         ELSE IF f.keyOut.has
              THEN [f EXCEPT !.output = MapV(PutEntry(f.output.e, f.keyOut.v, r.output))]
              ELSE f

\* record.parse: as map.parse, with the output key tested for truthiness.
RecordAbsorb(f, t, r) ==
    IF t.side = "key"
    THEN IF ~Success(r)
         THEN IF f.info.abortEarly
              THEN Returned(f, r)
              ELSE [f EXCEPT !.issues = f.issues \o r.issues, !.keyOut = NoOut]
         ELSE [f EXCEPT !.keyOut = Some(r.output)]
    ELSE IF ~Success(r)
         THEN IF f.info.abortEarly
              THEN Returned(f, r)
              ELSE [f EXCEPT !.issues = f.issues \o r.issues]
         ELSE IF f.keyOut.has /\ ~Falsy(f.keyOut.v)
              THEN [f EXCEPT !.output = Obj(PutEntry(f.output.e, f.keyOut.v.s, r.output))]
              ELSE f

SyncAbsorb(f, t, r) ==
    CASE f.schema.kind = "object" /\ f.schema.impl = "parse" -> ObjectAbsorb(f, t, r)
      [] f.schema.kind = "object" /\ f.schema.impl = "_parse" -> ObjectUAbsorb(f, t, r)
      [] f.schema.kind = "array" -> ArrayAbsorb(f, t, r)
      [] f.schema.kind = "tuple" -> TupleAbsorb(f, t, r)
      [] f.schema.kind = "set" -> SetAbsorb(f, t, r)
      [] f.schema.kind = "map" -> MapAbsorb(f, t, r)
      [] f.schema.kind = "record" -> RecordAbsorb(f, t, r)

\* The end of a composite's parse: the collected issues, or the pipe's result.
RunOwnPipe(f, engine) ==
    LET pf == PipeRunFrom(PipeEnter(engine, f.output, f.schema.pipe,
                                    GetPipeInfo(f.info, f.schema.kind)))
    IN [f EXCEPT !.pc = "done", !.result = pf.result,
                 !.piped = TRUE, !.pipeCalls = pf.calls]

\* An end of parse that runs the pipe whenever the loop was not left early.
SyncFinish_AlwaysPipes(f) ==
    IF f.pc = "done" THEN f ELSE RunOwnPipe(f, "sync")

SyncFinish(f) ==
    IF f.pc = "done" THEN f
    ELSE IF f.schema.kind = "object" /\ f.schema.impl = "_parse"
    THEN IF f.captured THEN Returned(f, NotOk(f.issues)) ELSE RunOwnPipe(f, "sync")
    ELSE IF Len(f.issues) > 0 THEN Returned(f, NotOk(f.issues))
    ELSE RunOwnPipe(f, "sync")

RECURSIVE Parse(_, _, _)
RECURSIVE SyncLoop(_)
RECURSIVE UnionLoop(_, _)

\* The loop over the children of a synchronous composite.
SyncLoop(f) ==
    IF f.pc # "loop" \/ f.idx > Len(f.tasks) THEN f
    ELSE LET t == f.tasks[f.idx]
             r == Parse(t.schema, t.input, t.info).result
             g == SyncAbsorb(f, t, r)
         IN SyncLoop([g EXCEPT !.idx = f.idx + 1,
                               !.visits = Append(f.visits, Visit(t, r))])

UnionIssue(f) ==
    GetIssue(f.info, "type", "union", "Invalid type", f.input, f.issues)

OptionVisit(i, r) == [slot |-> Num(i - 1), side |-> "option", entry |-> i, res |-> r]

\* union.parse: the loop over the options and the return.
UnionLoop(f, i) ==
    IF i > Len(f.schema.options)
    THEN Returned(f, NotOk(<<UnionIssue(f)>>))
    ELSE LET result == Parse(f.schema.options[i], f.input, f.info).result
         IN IF ~Success(result)
            THEN UnionLoop([f EXCEPT !.issues = f.issues \o result.issues,
                                     !.visits = Append(f.visits, OptionVisit(i, result))],
                           i + 1)
            ELSE LET again == Parse(f.schema.options[i], f.input, f.info).result
                 IN [f EXCEPT !.visits = f.visits \o <<OptionVisit(i, result),
                                                       OptionVisit(i, again)>>,
                              !.output = Arr(<<ResV(again)>>),
                              !.pc = "done",
                              !.result = Ok(ResV(again))]

\* unionAsync.parse: the loop body ends in `break` on every path, so only the
\* first option is ever parsed.
UnionAsyncParse(f) ==
    IF Len(f.schema.options) = 0
    THEN Returned(f, NotOk(<<UnionIssue(f)>>))
    ELSE LET result == Parse(f.schema.options[1], f.input, f.info).result
         IN IF ~Success(result)
            THEN LET again == Parse(f.schema.options[1], f.input, f.info).result
                 IN [f EXCEPT !.issues = f.issues \o result.issues,
                              !.visits = <<OptionVisit(1, result), OptionVisit(1, again)>>,
                              !.output = Arr(<<ResV(again)>>),
                              !.pc = "done",
                              !.result = Ok(ResV(again))]
            ELSE LET g == [f EXCEPT !.visits = <<OptionVisit(1, result)>>,
                                    !.output = result.output]
                 IN IF Falsy(result.output)
                    THEN Returned(g, NotOk(<<UnionIssue(g)>>))
                    ELSE Returned(g, Ok(Index0(result.output)))

\* A wrapper that rejects undefined as well as null.
NonNullableParse_Nullish(s, v, info) ==
    IF v = Null \/ v = Undefined
    THEN LeafOutcome(s, v, info, NotOk(<<GateIssue(s, v, info)>>), FALSE, <<>>)
    ELSE LET t == Task(s.wrapped, v, info, Undefined, "wrapped", 1)
             r == Parse(t.schema, t.input, t.info).result
         IN [ParseFrame(s, v, info) EXCEPT !.tasks = <<t>>, !.visits = <<Visit(t, r)>>,
                                           !.pc = "done", !.result = r]

\* nonNullableAsync.parse: null is rejected, any other input is handed to the
\* wrapped schema, whose result is returned.
NonNullableParse(s, v, info) ==
    IF v = Null
    THEN LeafOutcome(s, v, info, NotOk(<<GateIssue(s, v, info)>>), FALSE, <<>>)
    ELSE LET t == Task(s.wrapped, v, info, Undefined, "wrapped", 1)
             r == Parse(t.schema, t.input, t.info).result
         IN [ParseFrame(s, v, info) EXCEPT !.tasks = <<t>>, !.visits = <<Visit(t, r)>>,
                                           !.pc = "done", !.result = r]

\* schema.parse(input, info) of a schema whose result does not depend on
\* scheduling: the leaves, the synchronous composites, the unions and the
\* non-nullable wrapper.
Parse(s, v, info) ==
    IF s.kind = "non_nullable" THEN NonNullableParse(s, v, info)
    ELSE IF s.kind = "union"
    THEN IF s.async THEN UnionAsyncParse(ParseFrame(s, v, info))
         ELSE UnionLoop(ParseFrame(s, v, info), 1)
    ELSE IF ~Gate(s, v)
    THEN LeafOutcome(s, v, info, NotOk(<<GateIssue(s, v, info)>>), FALSE, <<>>)
    ELSE IF s.kind = "special"
    THEN LET pf == PipeRunFrom(PipeEnter("sync", v, s.pipe, GetPipeInfo(info, "special")))
         IN LeafOutcome(s, v, info, pf.result, TRUE, pf.calls)
    ELSE IF s.kind \in {"bigint", "blob"}
    THEN LET pf == PipeRunFrom(PipeEnter(IF s.async THEN "async" ELSE "sync", v, s.pipe,
                                         GetPipeInfo(info, s.kind)))
         IN LeafOutcome(s, v, info, pf.result, TRUE, pf.calls)
    ELSE IF s.kind \in {"void", "literal", "symbol", "nan"}
    THEN LeafOutcome(s, v, info, Ok(v), FALSE, <<>>)
    ELSE SyncFinish(SyncLoop(ParseFrame(s, v, info)))

---------------------------------------------------------------------------
(* Asynchronous composites: the children run concurrently *)

\* The frame after the type gate passed and every child task was started.
AsyncStart(s, v, info) ==
    LET f == ParseFrame(s, v, info) IN
    [f EXCEPT !.pc = "children",
              !.visits = [i \in DOMAIN f.tasks |->
                            Visit(f.tasks[i],
                                  Parse(f.tasks[i].schema, f.tasks[i].input,
                                        f.tasks[i].info).result)],
              !.outs = [i \in DOMAIN f.tasks |-> NoOut],
              !.join = [state |-> IF Len(f.tasks) = 0 THEN "resolved" ELSE "pending",
                        reason |-> NoResult]]

Pending(f) == {i \in DOMAIN f.tasks : \A k \in DOMAIN f.order : f.order[k] # i}

\* A join whose rejection reason is the last thrown value.
Thrown_LastWins(f, r) ==
    [f EXCEPT !.join = [state |-> "rejected", reason |-> r]]

\* `throw result` in a child task: Promise.all rejects with the first thrown value.
Thrown(f, r) ==
    IF f.join.state = "pending"
    THEN [f EXCEPT !.join = [state |-> "rejected", reason |-> r]]
    ELSE f

\* objectAsync.parse: a child task after its awaited parse.
ObjectAsyncAbsorb(f, t, r) ==
    IF ~Success(r)
    THEN IF f.info.abortEarly
         THEN Thrown(f, r)
         ELSE [f EXCEPT !.issues = f.issues \o r.issues]
    ELSE [f EXCEPT !.output = Obj(PutEntry(f.output.e, t.slot.s, r.output))]

\* arrayAsync.parse: a child task after its awaited parse.
ArrayAsyncAbsorb(f, t, r) ==
    IF ~Success(r)
    THEN IF f.info.abortEarly
         THEN Thrown(f, r)
         ELSE [f EXCEPT !.issues = f.issues \o r.issues]
    ELSE [f EXCEPT !.output = Arr(SetAt(f.output.a, t.slot.n, r.output))]

\* tupleAsync.parse: a declared item's task; a rest item's task stores the
\* awaited result object itself and its catch clause is never entered.
TupleAsyncAbsorb(f, t, r) ==
    IF t.side = "rest"
    THEN [f EXCEPT !.output = Arr(SetAt(f.output.a, t.slot.n, ResV(r)))]
    ELSE IF ~Success(r)
    THEN IF f.info.abortEarly
         THEN Thrown(f, r)
         ELSE [f EXCEPT !.issues = f.issues \o r.issues]
    ELSE [f EXCEPT !.output = Arr(SetAt(f.output.a, t.slot.n, r.output))]

\* setAsync.parse: a child task after its awaited parse.
SetAsyncAbsorb(f, t, r) ==
    IF ~Success(r)
    THEN IF f.info.abortEarly
         THEN Thrown(f, r)
         ELSE [f EXCEPT !.issues = f.issues \o r.issues]
    ELSE [f EXCEPT !.output = SetV(AddMember(f.output.m, r.output))]

\* The other task of the entry of task i (key <-> value).
Sibling(i) == IF i % 2 = 1 THEN i + 1 ELSE i - 1
SiblingDone(f, i) == \E k \in DOMAIN f.order : f.order[k] = Sibling(i)

\* mapAsync.parse: the key or value task of an entry; when both have
\* returned, the entry is set if both returned an output.
MapAsyncAbsorb(f, i, t, r) ==
    IF ~Success(r)
    THEN IF f.info.abortEarly
         THEN Thrown(f, r)
         ELSE [f EXCEPT !.issues = f.issues \o r.issues]
    ELSE LET g == [f EXCEPT !.outs[i] = Some(r.output)]
             k == IF t.side = "key" THEN i ELSE Sibling(i)
             w == IF t.side = "key" THEN Sibling(i) ELSE i
         IN IF SiblingDone(f, i) /\ g.outs[k].has /\ g.outs[w].has
            THEN [g EXCEPT !.output = MapV(PutEntry(f.output.e, g.outs[k].v, g.outs[w].v))]
            ELSE g

\* recordAsync.parse: as mapAsync.parse, but the outputs are returned bare,
\* tested for truthiness, and the value is read as outputValue[0].
RecordAsyncAbsorb(f, i, t, r) ==
    IF ~Success(r)
    THEN IF f.info.abortEarly
         THEN Thrown(f, r)
         ELSE [f EXCEPT !.issues = f.issues \o r.issues]
    ELSE LET g == [f EXCEPT !.outs[i] = Some(r.output)]
             k == IF t.side = "key" THEN i ELSE Sibling(i)
             w == IF t.side = "key" THEN Sibling(i) ELSE i
         IN IF SiblingDone(f, i) /\ g.outs[k].has /\ g.outs[w].has
               /\ ~Falsy(g.outs[k].v) /\ ~Falsy(g.outs[w].v)
            THEN [g EXCEPT !.output =
                      Obj(PutEntry(f.output.e, g.outs[k].v.s, Index0(g.outs[w].v)))]
            ELSE g

AsyncAbsorb(f, i, t, r) ==
    CASE f.schema.kind = "object" -> ObjectAsyncAbsorb(f, t, r)
      [] f.schema.kind = "array" -> ArrayAsyncAbsorb(f, t, r)
      [] f.schema.kind = "tuple" -> TupleAsyncAbsorb(f, t, r)
      [] f.schema.kind = "set" -> SetAsyncAbsorb(f, t, r)
      [] f.schema.kind = "map" -> MapAsyncAbsorb(f, i, t, r)
      [] f.schema.kind = "record" -> RecordAsyncAbsorb(f, i, t, r)

\* Child task i completes: its continuation runs, and Promise.all resolves
\* once every task has returned.
AsyncSettle(f, i) ==
    LET t == f.tasks[i]
        r == Parse(t.schema, t.input, t.info).result
        g == AsyncAbsorb(f, i, t, r)
        h == [g EXCEPT !.order = Append(f.order, i)]
    IN IF h.join.state = "pending" /\ Len(h.order) = Len(h.tasks)
       THEN [h EXCEPT !.join.state = "resolved"]
       ELSE h

\* The values Promise.all resolves with: one undefined per child task.
JoinArray(f) == Arr([i \in 1..Len(f.tasks) |-> Undefined])

\* A parse whose Promise.all has no catch handler: the awaited rejection is
\* thrown out of the parse, whose promise rejects with the child's result.
AsyncResume_NoCatch(f) ==
    IF f.join.state = "rejected"
    THEN Returned(f, [f.join.reason EXCEPT !.tag = "rejected"])
    ELSE IF f.schema.kind = "array"
    THEN Returned(f, Raw(JoinArray(f)))
    ELSE IF Len(f.issues) > 0 THEN Returned(f, NotOk(f.issues))
    ELSE RunOwnPipe(f, "async")

\* The parse resumes after `await Promise.all(...).catch(...)`.
AsyncResume(f) ==
    IF f.join.state = "rejected"
    THEN Returned(f, f.join.reason)
    ELSE IF f.schema.kind = "array"
    THEN Returned(f, Raw(JoinArray(f)))
    ELSE IF Len(f.issues) > 0 THEN Returned(f, NotOk(f.issues))
    ELSE RunOwnPipe(f, "async")

---------------------------------------------------------------------------
(* The methods parse, parseAsync, safeParse and safeParseAsync, applied to
   the result of schema.parse *)

\* `result.issues` as JavaScript reads it: undefined unless the result is a
\* failure.
ResultIssues(r) == IF r.tag = "err" THEN Some(r.issues) ELSE NoOut

\* new ValiError(issues): the error carries the issues and summarises the
\* first of them; without a first issue the constructor throws a TypeError.
ValiError(issues) ==
    IF issues.has /\ issues.v # <<>>
    THEN [name |-> "ValiError", issues |-> issues.v, message |-> issues.v[1].message]
    ELSE [name |-> "TypeError", issues |-> <<>>, message |-> ""]

Return(v) == [kind |-> "return", value |-> v]
Throw(e) == [kind |-> "throw", value |-> e]

\* parse(schema, input, info), after `const result = schema.parse(input, info)`
parse(result) ==
    IF ~Success(result) THEN Throw(ValiError(ResultIssues(result)))
    ELSE Return(result.output)

\* parseAsync(schema, input, info), after the await: throw rejects the promise.
parseAsync(result) ==
    IF ~Success(result) THEN Throw(ValiError(ResultIssues(result)))
    ELSE Return(result.output)

\* safeParse(schema, input, info), after schema.parse returned.
safeParse(result) ==
    IF ~Success(result)
    THEN LET error == ValiError(ResultIssues(result)) IN
         IF error.name = "ValiError"
         THEN Return([success |-> FALSE, error |-> error])
         ELSE Throw(error)
    ELSE Return([success |-> TRUE, data |-> result.output])

\* safeParseAsync(schema, input, info), after the await.
safeParseAsync(result) ==
    IF ~Success(result)
    THEN LET error == ValiError(ResultIssues(result)) IN
         IF error.name = "ValiError"
         THEN Return([success |-> FALSE, error |-> error])
         ELSE Throw(error)
    ELSE Return([success |-> TRUE, data |-> result.output])

---------------------------------------------------------------------------
(* The pipe engine as a state machine *)

Nums == {Num(n) : n \in 0..MaxNum}
Flags == {Info(ae, ape) : ae \in BOOLEAN, ape \in BOOLEAN}

NumActions == {MinValue(1), MinValue(2), Equal(1), ToMinValue(2), Strict(1)}

RECURSIVE SeqsUpTo(_, _)
SeqsUpTo(S, n) ==
    IF n = 0 THEN {<<>>}
    ELSE LET shorter == SeqsUpTo(S, n - 1)
         IN shorter \cup {Append(s, x) : s \in {q \in shorter : Len(q) = n - 1}, x \in S}

NumPipes == SeqsUpTo(NumActions, MaxPipeLen)

Idle == [pc |-> "idle"]

\* A caller enters executePipe or executePipeAsync.
PipeCall ==
    /\ pipeRun.pc = "idle"
    /\ \E engine \in {"sync", "async"}, input \in Nums, pipe \in NumPipes, info \in Flags :
          pipeRun' = PipeEnter(engine, input, pipe, GetPipeInfo(info, "number"))
    /\ UNCHANGED <<parseRun, instance>>

\* The next action of the pipe is called.
PipeCallAction ==
    /\ pipeRun.pc = "loop"
    /\ pipeRun.inflight = 0
    /\ pipeRun.idx <= Len(pipeRun.pipe)
    /\ pipeRun' = PipeInvoke(pipeRun)
    /\ UNCHANGED <<parseRun, instance>>

\* The action's result is handled.
PipeHandle ==
    /\ pipeRun.pc = "loop"
    /\ pipeRun.inflight # 0
    /\ pipeRun' = PipeSettle(pipeRun)
    /\ UNCHANGED <<parseRun, instance>>

\* The loop is over and the engine returns.
PipeReturn ==
    /\ pipeRun.pc = "loop"
    /\ pipeRun.inflight = 0
    /\ pipeRun.idx > Len(pipeRun.pipe)
    /\ pipeRun' = PipeExit(pipeRun)
    /\ UNCHANGED <<parseRun, instance>>

---------------------------------------------------------------------------
(* Parsing as a state machine: the schemas and inputs that are enumerated *)

LNum == Special("number", <<>>)
LStr == Special("string", <<>>)
LAny == Special("any", <<>>)
\* a number with a pipe of two actions; 0 fails both, 1 passes
LPiped == Special("number", <<MinValue(1), Equal(1)>>)
\* a string key that must not be empty
LKey == Special("string", <<MinLength(1)>>)
\* a number whose pipe transforms it
LRaise == Special("number", <<ToMinValue(2)>>)
NestedArray == ArraySchema(FALSE, LPiped, <<>>)
LOne == LiteralAsync(Num(1))

Scenario(schema, input) == [schema |-> schema, input |-> input]

ItemVals == {Num(0), Num(1), Str("ab"), Arr(<<Num(0), Num(0)>>)}
ChildSchemas == {LNum, LPiped, NestedArray}
AsyncChildSchemas == {LPiped, NestedArray, LOne}
OwnPipes == {<<>>, <<MaxLength(1), Custom(0)>>}

ArrayInputs == {Arr(a) : a \in SeqsUpTo(ItemVals, MaxItems)}
NoDup(a) == \A i, j \in DOMAIN a : i # j => a[i] # a[j]
SetInputs == {SetV(a) : a \in {q \in SeqsUpTo(ItemVals, MaxItems) : NoDup(q)}}

\* Object inputs: keys "x", "b", "a" in this order, each present or missing.
Present == {<<>>} \cup {<<v>> : v \in ItemVals}
ObjectInputs ==
    {Obj((IF x THEN << <<"x", Num(1)>> >> ELSE <<>>)
         \o (IF b = <<>> THEN <<>> ELSE << <<"b", b[1]>> >>)
         \o (IF a = <<>> THEN <<>> ELSE << <<"a", a[1]>> >>)) :
        x \in BOOLEAN, a \in Present, b \in Present}
ObjectShapes ==
    {<< <<"a", c1>>, <<"b", c2>> >> :
        c1 \in {LNum, LPiped, LAny}, c2 \in ChildSchemas \cup {LRaise}}
AsyncObjectShapes ==
    {<< <<"a", c1>>, <<"b", c2>> >> :
        c1 \in {LPiped, LOne, LAny}, c2 \in AsyncChildSchemas \cup {LRaise}}

TupleItems == {<<LPiped>>, <<LNum, LPiped>>}
TupleRests == {NoSchema, LNum, LPiped}

MapKeys == {Str("ab"), Num(1)}
MapVals == {Num(0), Num(1)}
NoDupKeys(e) == \A i, j \in DOMAIN e : i # j => e[i][1] # e[j][1]
MapInputs ==
    {MapV(e) : e \in {q \in SeqsUpTo(MapKeys \X MapVals, MaxItems) : NoDupKeys(q)}}
RecordKeys == {"a", "", "__proto__"}
\* Records that carry one of the other blocked keys, alone or before "a".
BlockedInputs ==
    {Obj(<< <<k, Num(1)>> >> \o rest) :
        k \in {"prototype", "constructor"}, rest \in {<<>>, << <<"a", Num(1)>> >>}}
RecordInputs ==
    {Obj(e) : e \in {q \in SeqsUpTo(RecordKeys \X MapVals, MaxItems) : NoDupKeys(q)}}
    \cup BlockedInputs

UnionOptions == {LNum, LStr, LPiped, LAny, VoidType, Never}
UnionInputs == {Num(0), Num(1), Str(""), Str("ab"), Bool(FALSE), Null, Undefined}
OptionLists == {<<a, b>> : a, b \in UnionOptions} \cup {<<Never, a, b>> : a, b \in {LNum, LStr, Never}}

\* A value that passes no container's type gate.
WrongInput == Num(1)

CompositeScenarios(async) ==
    LET children == IF async THEN AsyncChildSchemas ELSE ChildSchemas IN
    {Scenario(ObjectSchema("parse", async, sh, p), v) :
        sh \in (IF async THEN AsyncObjectShapes ELSE ObjectShapes), p \in OwnPipes,
        v \in ObjectInputs \cup {WrongInput}}
    \cup {Scenario(ArraySchema(async, c, p), v) :
        c \in children, p \in OwnPipes, v \in ArrayInputs \cup {WrongInput}}
    \cup {Scenario(TupleSchema(async, its, rest, p), v) :
        its \in TupleItems, rest \in TupleRests, p \in OwnPipes,
        v \in ArrayInputs \cup {WrongInput}}
    \cup {Scenario(SetSchema(async, c, p), v) :
        c \in children, p \in OwnPipes, v \in SetInputs \cup {WrongInput}}
    \cup {Scenario(MapSchema(async, k, c, p), v) :
        k \in {LStr, LNum}, c \in {LNum, LPiped}, p \in OwnPipes,
        v \in MapInputs \cup {WrongInput}}
    \cup {Scenario(RecordSchema(async, k, c, p), v) :
        k \in {LStr, LKey}, c \in {LNum, LPiped}, p \in OwnPipes,
        v \in RecordInputs \cup {WrongInput}}

\* Parses on inputs of every type, by schemas with and without an error
\* message argument.
GateVals ==
    {Undefined, Null, Num(1), Str("ab"), Bool(FALSE), BigInt(1), SymbolV, NaN, BlobV,
     Arr(<<>>), Arr(<<Num(1)>>), Obj(<<>>), SetV(<<>>), MapV(<<>>)}
Errors == {"", "E"}
LeafSchemas ==
    {LPiped, VoidType, VoidTypeAsync, Nan, NanAsync, Symbol, SymbolAsync,
     LOne, Bigint(<<Custom(0)>>), BlobAsync(<<Custom(0)>>)}
GateComposites(async) ==
    LET p == <<MaxLength(1), Custom(0)>> IN
    {ObjectSchema("parse", async, << <<"a", LAny>>, <<"b", LPiped>> >>, p),
     ArraySchema(async, LPiped, p),
     TupleSchema(async, <<LPiped>>, NoSchema, p),
     TupleSchema(async, <<LPiped>>, LNum, p),
     SetSchema(async, LPiped, p),
     MapSchema(async, LStr, LPiped, p),
     RecordSchema(async, LStr, LPiped, p)}
WithErrors(schemas) == schemas \cup {WithError(s, e) : s \in schemas, e \in Errors}
SyncGateScenarios ==
    {Scenario(s, v) :
        s \in WithErrors(LeafSchemas \cup GateComposites(FALSE)
                            \cup {ObjectSchema("_parse", FALSE,
                                                << <<"a", LAny>>, <<"b", LPiped>> >>,
                                                <<Custom(0)>>)}),
        v \in GateVals}
AsyncGateScenarios ==
    {Scenario(s, v) : s \in WithErrors(GateComposites(TRUE)), v \in GateVals}

\* Composites nested in composites: an array and an object with pipes of
\* their own under an object, and maps under an array.
NestedPiped == ArraySchema(FALSE, LNum, <<MaxLength(1)>>)
InnerObject(impl) == ObjectSchema(impl, FALSE, << <<"a", LPiped>> >>, <<Custom(0)>>)
InnerMap == MapSchema(FALSE, LStr, LPiped, <<Custom(0)>>)
\* The nested object has the implementation of the object around it.
NestedShape(impl) == << <<"a", NestedPiped>>, <<"b", InnerObject(impl)>> >>
NestedObjectInputs ==
    {Obj(<< <<"a", a>>, <<"b", b>> >>) :
        a \in {Arr(<<Num(0), Num(0)>>), Arr(<<Str("ab")>>), Num(1)},
        b \in {Obj(<< <<"a", Num(1)>> >>), Obj(<< <<"x", Num(0)>>, <<"a", Num(1)>> >>),
               Obj(<< <<"a", Num(0)>> >>), Null}}
NestedArrayInputs ==
    {Arr(<<m>>) : m \in {MapV(<< <<Num(1), Num(0)>> >>), MapV(<< <<Str("ab"), Num(1)>> >>),
                         SetV(<<>>)}}
    \cup {Arr(<<MapV(<< <<Str("ab"), Num(0)>> >>), MapV(<< <<Num(1), Num(1)>> >>)>>)}
NestedScenarios(async) ==
    {Scenario(ObjectSchema("parse", async, NestedShape("parse"), <<>>), v) :
        v \in NestedObjectInputs}
    \cup {Scenario(ArraySchema(async, InnerMap, <<>>), v) : v \in NestedArrayInputs}

\* The wrapper around leaves and synchronous composites, with and without an
\* error message argument, on inputs of every type.
WrappedSchemas ==
    {LPiped, LAny, VoidType, NestedArray,
     ObjectSchema("parse", FALSE, << <<"a", LPiped>>, <<"b", LNum>> >>, <<Custom(0)>>)}
WrapperInputs ==
    GateVals \cup {Num(0), Arr(<<Num(0), Num(0)>>), Obj(<< <<"a", Num(0)>> >>),
                  Obj(<< <<"a", Num(1)>>, <<"b", Num(1)>> >>)}
WrapperScenarios ==
    {Scenario(s, v) :
        s \in WithErrors({NonNullableAsync(w) : w \in WrappedSchemas}), v \in WrapperInputs}

\* Records whose key schema transforms the key, on keys with white space.
LTrim == Special("string", <<ToTrimmed>>)
TrimmedScenarios(async) ==
    {Scenario(RecordSchema(async, LTrim, LNum, p), Obj(e)) :
        p \in OwnPipes,
        e \in {<< <<"constructor ", Num(1)>> >>,
               << <<"a", Num(1)>>, <<"constructor ", Num(1)>> >>,
               << <<"constructor", Num(1)>>, <<"constructor ", Num(0)>> >>}}

SyncScenarios ==
    CompositeScenarios(FALSE)
    \cup TrimmedScenarios(FALSE)
    \cup WrapperScenarios
    \cup NestedScenarios(FALSE)
    \cup {Scenario(ObjectSchema("_parse", FALSE, NestedShape("_parse"), <<>>), v) :
            v \in NestedObjectInputs}
    \cup SyncGateScenarios
    \cup {Scenario(ObjectSchema("_parse", FALSE, sh, p), v) :
            sh \in ObjectShapes, p \in OwnPipes, v \in ObjectInputs \cup {WrongInput}}
    \cup {Scenario(UnionSchema(a, opts), v) :
            a \in BOOLEAN, opts \in OptionLists, v \in UnionInputs}

AsyncScenarios ==
    CompositeScenarios(TRUE) \cup AsyncGateScenarios \cup NestedScenarios(TRUE)
    \cup TrimmedScenarios(TRUE)

\* A caller invokes the parse of a schema whose result needs no scheduling.
ParseSyncCall ==
    /\ parseRun.pc = "idle"
    /\ \E sc \in SyncScenarios, info \in Flags :
          parseRun' = Parse(sc.schema, sc.input, info)
    /\ UNCHANGED <<pipeRun, instance>>

\* A caller invokes the parse of an async composite: the type gate, and
\* every child task is started.
ParseAsyncCall ==
    /\ parseRun.pc = "idle"
    /\ \E sc \in AsyncScenarios, info \in Flags :
          parseRun' = IF Gate(sc.schema, sc.input)
                      THEN AsyncStart(sc.schema, sc.input, info)
                      ELSE LeafOutcome(sc.schema, sc.input, info,
                                       NotOk(<<GateIssue(sc.schema, sc.input, info)>>),
                                       FALSE, <<>>)
    /\ UNCHANGED <<pipeRun, instance>>

\* One of the child tasks still running completes.
ChildSettle ==
    /\ parseRun.pc \in {"children", "done"}
    /\ parseRun.join.state # "none"
    /\ \E i \in Pending(parseRun) : parseRun' = AsyncSettle(parseRun, i)
    /\ UNCHANGED <<pipeRun, instance>>

\* The awaited Promise.all has settled and the parse runs to its return.
ParseResume ==
    /\ parseRun.pc = "children"
    /\ parseRun.join.state \in {"rejected", "resolved"}
    /\ parseRun' = AsyncResume(parseRun)
    /\ UNCHANGED <<pipeRun, instance>>

InitParse == pipeRun = Idle /\ parseRun = Idle /\ instance = Idle
NextParse == ParseSyncCall \/ ParseAsyncCall \/ ChildSettle \/ ParseResume
SpecParse == InitParse /\ [][NextParse]_vars

InitPipe == pipeRun = Idle /\ parseRun = Idle /\ instance = Idle
NextPipe == PipeCall \/ PipeCallAction \/ PipeHandle \/ PipeReturn
SpecPipe == InitPipe /\ [][NextPipe]_vars

---------------------------------------------------------------------------
(* One object schema instance parsed several times.  The closure variable
   cachedEntries outlives a parse, and the arrays of issues are objects with
   an identity: an array is an address in heap, and 0 stands for undefined. *)

MaxCalls == 2        \* most parses of one instance

\* A result whose issues are an array of the heap.
OkAt(v) == [tag |-> "ok", output |-> v, ref |-> 0]
ErrAt(ref) == [tag |-> "err", output |-> Undefined, ref |-> ref]

\* `issues: [getIssue(...)]`: a new array.
Alloc(st, is) == [st EXCEPT !.heap = Append(@, is)]
\* A result with issues is handed to its caller: the log keeps the array, what
\* it held then, and whether the caller had captured no issues before.
Handed(st, ref, first) ==
    [st EXCEPT !.handed = Append(@, [ref |-> ref, own |-> st.heap[ref], first |-> first])]

\* A loop body that keeps the array of the latest failing action: the
\* captured issues are moved in front of it.
PipeStepAt_KeepLatest(st, action, info, output, issues) ==
    LET result == ApplyAction(action, output, info) IN
    IF HasIssues(result)
    THEN LET ref == Len(st.heap) + 1
             st1 == Handed(Alloc(st, result.issues), ref, issues = 0)
         IN [st |-> IF issues # 0
                    THEN [st1 EXCEPT !.heap[ref] = st1.heap[issues] \o @]
                    ELSE st1,
             output |-> output,
             issues |-> ref,
             stop |-> info.abortEarly \/ info.abortPipeEarly]
    ELSE [st |-> st, output |-> result.output, issues |-> issues, stop |-> FALSE]

\* executePipe: the loop body for one action, with `issues` the captured
\* array; stop is the `break`.
PipeStepAt(st, action, info, output, issues) ==
    LET result == ApplyAction(action, output, info) IN
    IF HasIssues(result)
    THEN LET ref == Len(st.heap) + 1
             st1 == Handed(Alloc(st, result.issues), ref, issues = 0)
         IN [st |-> IF issues # 0
                    THEN [st1 EXCEPT !.heap[issues] = @ \o result.issues]
                    ELSE st1,
             output |-> output,
             issues |-> IF issues # 0 THEN issues ELSE ref,
             stop |-> info.abortEarly \/ info.abortPipeEarly]
    ELSE [st |-> st, output |-> result.output, issues |-> issues, stop |-> FALSE]

\* executePipe: the loop and the return.
RECURSIVE PipeLoopAt(_, _, _, _, _, _)
PipeLoopAt(st, pipe, info, i, output, issues) ==
    IF i > Len(pipe)
    THEN [st |-> st, res |-> IF issues # 0 THEN ErrAt(issues) ELSE OkAt(output)]
    ELSE CHOOSE out \in
            {IF n.stop THEN [st |-> n.st, res |-> ErrAt(n.issues)]
             ELSE PipeLoopAt(n.st, pipe, info, i + 1, n.output, n.issues) :
                n \in {PipeStepAt(st, pipe[i], info, output, issues)}} : TRUE

ExecutePipeAt(st, input, pipe, parseInfo, reason) ==
    IF Len(pipe) = 0 THEN [st |-> st, res |-> OkAt(input)]
    ELSE PipeLoopAt(st, pipe, GetPipeInfo(parseInfo, reason), 1, input, 0)

\* schema._parse(value, info) of a leaf.
LeafParseAt(st, s, v, info) ==
    IF ~Gate(s, v)
    THEN LET st1 == Alloc(st, <<GateIssue(s, v, info)>>)
         IN [st |-> st1, res |-> ErrAt(Len(st1.heap))]
    ELSE ExecutePipeAt(st, v, s.pipe, info, s.kind)

\* `issue.path.unshift(pathItem)` for every issue of an array.
Unshift(is, pathItem) == [i \in DOMAIN is |-> [is[i] EXCEPT !.path = <<pathItem>> \o @]]

\* object._parse: the loop body for one entry; stop is the `break`.
ObjectStepAt(st, entry, input, info, output, issues) ==
    LET key == entry[1]
        value == Lookup(input, key)
        c == LeafParseAt(st, entry[2], value, info)
    IN IF c.res.tag = "err"
       THEN LET ref == c.res.ref
                st1 == Handed(c.st, ref, issues = 0)
                moved == Unshift(st1.heap[ref], PathItem("object", Str(key), value))
                st2 == [st1 EXCEPT !.heap[ref] = moved]
            IN [st |-> IF issues # 0
                       THEN [st2 EXCEPT !.heap[issues] = @ \o moved]
                       ELSE st2,
                output |-> output,
                issues |-> IF issues # 0 THEN issues ELSE ref,
                stop |-> info.abortEarly]
       ELSE [st |-> c.st, output |-> Obj(PutEntry(output.e, key, c.res.output)),
             issues |-> issues, stop |-> FALSE]

\* object._parse: the loop over the cached entries.
RECURSIVE ObjectLoopAt(_, _, _, _, _, _, _)
ObjectLoopAt(st, entries, input, info, k, output, issues) ==
    IF k > Len(entries) THEN [st |-> st, output |-> output, issues |-> issues]
    ELSE CHOOSE out \in
            {IF n.stop THEN [st |-> n.st, output |-> n.output, issues |-> n.issues]
             ELSE ObjectLoopAt(n.st, entries, input, info, k + 1, n.output, n.issues) :
                n \in {ObjectStepAt(st, entries[k], input, info, output, issues)}} : TRUE

\* An instance whose `issues` variable belongs to the schema, not to the call.
OwnIssues_OfInstance(inst) ==
    IF inst.calls = <<>> THEN 0 ELSE inst.calls[Len(inst.calls)].res.ref

\* `let issues: Issues | undefined`: every call starts without issues.
OwnIssues(inst) == 0

\* An instance that computes the entries anew in every parse.
CacheEntries_Refresh(cached, shape) == Some(shape)

\* `cachedEntries = cachedEntries || Object.entries(object)`
CacheEntries(cached, shape) == IF cached.has THEN cached ELSE Some(shape)

\* object._parse(input, info) on the instance: the store and the result.
ObjectParseAt(inst, input, info) ==
    LET st == [heap |-> inst.heap, handed |-> inst.handed] IN
    IF ~Gate(inst.schema, input)
    THEN LET st1 == Alloc(st, <<GateIssue(inst.schema, input, info)>>)
         IN [st |-> st1, res |-> ErrAt(Len(st1.heap)), cached |-> inst.cached]
    ELSE LET cached == CacheEntries(inst.cached, inst.schema.entries) IN
         CHOOSE out \in
            {IF l.issues # 0
             THEN [st |-> l.st, res |-> ErrAt(l.issues), cached |-> cached]
             ELSE ExecutePipeAt(l.st, l.output, inst.schema.pipe, info, "object")
                     @@ [cached |-> cached] :
                l \in {ObjectLoopAt(st, cached.v, input, info, 1, Obj(<<>>),
                                    OwnIssues(inst))}} : TRUE

\* The instances, inputs and infos that are enumerated.
LStrict == Special("number", <<Strict(1), MinValue(2)>>)
InstanceSchemas ==
    {ObjectSchema("_parse", FALSE, sh, p) :
        sh \in {<< <<"a", LPiped>>, <<"b", LStrict>> >>, << <<"a", LNum>>, <<"b", LPiped>> >>},
        p \in OwnPipes}
    \cup {ObjectSchema("parse", TRUE, sh, p) :
        sh \in {<< <<"a", LPiped>>, <<"b", LOne>> >>, << <<"a", LPiped>>, <<"b", LRaise>> >>},
        p \in OwnPipes}
InstanceInputs ==
    {Obj(<< <<"a", a>>, <<"b", b>> >>) : a, b \in {Num(0), Num(1)}} \cup {WrongInput}

NewInstance(schema) ==
    [pc |-> "created", schema |-> schema, cached |-> NoOut,
     heap |-> <<>>, handed |-> <<>>, calls |-> <<>>, frames |-> <<>>]

\* A caller parses with the synchronous instance; the call runs to its return.
InstanceParse ==
    /\ instance.pc = "created"
    /\ ~instance.schema.async
    /\ Len(instance.calls) < MaxCalls
    /\ \E input \in InstanceInputs, info \in Flags :
          \E r \in {ObjectParseAt(instance, input, info)} :
          instance' = [instance EXCEPT
              !.cached = r.cached, !.heap = r.st.heap, !.handed = r.st.handed,
              !.calls = Append(@, [input |-> input, info |-> info, res |-> r.res,
                                   issues |-> IF r.res.ref = 0 THEN <<>>
                                              ELSE r.st.heap[r.res.ref],
                                   object |-> instance.schema.entries])]
    /\ UNCHANGED <<pipeRun, parseRun>>

\* A caller parses with the asynchronous instance: the type gate, the cache,
\* and every child task is started.  Earlier parses may still be running.
InstanceParseAsync ==
    /\ instance.pc = "created"
    /\ instance.schema.async
    /\ Len(instance.frames) < MaxCalls
    /\ \E input \in InstanceInputs, info \in Flags :
          IF Gate(instance.schema, input)
          THEN LET cached == CacheEntries(instance.cached, instance.schema.entries) IN
               instance' = [instance EXCEPT
                   !.cached = cached,
                   !.frames = Append(@, AsyncStart([instance.schema EXCEPT !.entries = cached.v],
                                                   input, info))]
          ELSE instance' = [instance EXCEPT
                   !.frames = Append(@, LeafOutcome(instance.schema, input, info,
                                         NotOk(<<GateIssue(instance.schema, input, info)>>),
                                         FALSE, <<>>))]
    /\ UNCHANGED <<pipeRun, parseRun>>

\* A child task of parse c completes: its continuation writes to the output
\* and issues of that parse.
Deliver(frames, c, i) == [frames EXCEPT ![c] = AsyncSettle(@, i)]

InstanceChildSettle ==
    /\ instance.pc = "created"
    /\ \E c \in DOMAIN instance.frames :
          /\ instance.frames[c].join.state # "none"
          /\ \E i \in Pending(instance.frames[c]) :
                instance' = [instance EXCEPT !.frames = Deliver(@, c, i)]
    /\ UNCHANGED <<pipeRun, parseRun>>

\* The awaited Promise.all of parse c has settled and the parse returns.
InstanceResume ==
    /\ instance.pc = "created"
    /\ \E c \in DOMAIN instance.frames :
          /\ instance.frames[c].pc = "children"
          /\ instance.frames[c].join.state \in {"rejected", "resolved"}
          /\ instance' = [instance EXCEPT !.frames[c] = AsyncResume(@)]
    /\ UNCHANGED <<pipeRun, parseRun>>

\* The caller deletes the first key of the exposed shape (`schema.object`).
EditShape ==
    /\ instance.pc = "created"
    /\ Len(instance.schema.entries) = 2
    /\ instance' = [instance EXCEPT !.schema.entries = Tail(@)]
    /\ UNCHANGED <<pipeRun, parseRun>>

InitInstance ==
    /\ pipeRun = Idle /\ parseRun = Idle
    /\ \E schema \in InstanceSchemas : instance = NewInstance(schema)
NextInstance ==
    InstanceParse \/ InstanceParseAsync \/ InstanceChildSettle \/ InstanceResume \/ EditShape
SpecInstance == InitInstance /\ [][NextInstance]_vars

---------------------------------------------------------------------------
(* Claims about the pipe engine *)

PipeDone == pipeRun.pc = "done"
PipeActive == pipeRun.pc # "idle"

\* The reference fold of C1: every action runs in order on the current output;
\* a success replaces the output, a failure appends its issues.
RECURSIVE RefFold(_, _, _, _, _)
RefFold(pipe, i, output, issues, info) ==
    IF i > Len(pipe)
    THEN IF issues # <<>> THEN NotOk(issues) ELSE Ok(output)
    ELSE LET r == ApplyAction(pipe[i], output, info)
         IN IF Success(r)
            THEN RefFold(pipe, i + 1, r.output, issues, info)
            ELSE RefFold(pipe, i + 1, output, issues \o r.issues, info)

\* C1: with abortEarly and abortPipeEarly both false, executePipe and
\* executePipeAsync return the result of the reference fold over the pipe.
C1_PipeIsReferenceFold ==
    (PipeDone /\ ~pipeRun.info.abortEarly /\ ~pipeRun.info.abortPipeEarly)
        => pipeRun.result = RefFold(pipeRun.pipe, 1, pipeRun.input, <<>>, pipeRun.info)

\* A run without abort flags in which an action failed, a later action
\* transformed the output, and a still later action failed again.
C1_Witness ==
    /\ PipeDone /\ ~pipeRun.info.abortEarly /\ ~pipeRun.info.abortPipeEarly
    /\ \E i, j, k \in DOMAIN pipeRun.calls :
          /\ i < j /\ j < k
          /\ ~Success(pipeRun.calls[i].res)
          /\ Success(pipeRun.calls[j].res)
          /\ pipeRun.calls[j].res.output # pipeRun.calls[j].arg
          /\ ~Success(pipeRun.calls[k].res)
    /\ Len(pipeRun.result.issues) >= 2

FailedCalls(f) == {i \in DOMAIN f.calls : ~Success(f.calls[i].res)}
FirstFailed(f) == CHOOSE i \in FailedCalls(f) : \A j \in FailedCalls(f) : i <= j

\* C2: with abortEarly or abortPipeEarly true, the first failing action ends
\* the pipe: no later action is invoked, and the engine returns a failure
\* carrying exactly that action's issues.
C2_PipeAbortsAtFirstFailure ==
    (PipeActive /\ (pipeRun.info.abortEarly \/ pipeRun.info.abortPipeEarly)
       /\ FailedCalls(pipeRun) # {})
        => LET k == FirstFailed(pipeRun) IN
           /\ Len(pipeRun.calls) = k
           /\ \A i \in DOMAIN pipeRun.calls : pipeRun.calls[i].pos = i
           /\ PipeDone => pipeRun.result = NotOk(pipeRun.calls[k].res.issues)

\* A pipe of three actions under abortPipeEarly alone whose second action
\* is the first to fail: the engine has returned and the third never ran.
C2_Witness ==
    /\ PipeDone /\ pipeRun.info.abortPipeEarly /\ ~pipeRun.info.abortEarly
    /\ Len(pipeRun.pipe) = 3
    /\ FailedCalls(pipeRun) = {2}
    /\ pipeRun.result.tag = "err"

---------------------------------------------------------------------------
(* Claims about parsing *)

ParseDone == parseRun.pc = "done"
\* The parse is one of a composite whose type gate passed.
InComposite ==
    /\ parseRun.pc \in {"children", "done"}
    /\ parseRun.schema.kind \in {"object", "array", "tuple", "set", "map", "record"}
    /\ Gate(parseRun.schema, parseRun.input)
IsUnion == parseRun.pc = "done" /\ parseRun.schema.kind = "union"

FailedVisits(f) == {i \in DOMAIN f.visits : ~Success(f.visits[i].res)}
FirstFailedVisit(f) == CHOOSE i \in FailedVisits(f) : \A j \in FailedVisits(f) : i <= j
NoPath(is) == [i \in DOMAIN is |-> [is[i] EXCEPT !.path = <<>>]]

\* C3: a parse with abortEarly = true that ends in failure returns an issues
\* sequence of length exactly one.
C3_AbortEarlySingleIssue ==
    (ParseDone /\ parseRun.info.abortEarly /\ ~Success(parseRun.result))
        => parseRun.result.tag = "err" /\ Len(parseRun.result.issues) = 1

\* C4: with abortEarly = true a synchronous composite stops at its first
\* failing child: no later child is parsed, its own pipe is not run, and it
\* returns that child's issues and no other.
C4_SyncAbortStopsAtFailingChild ==
    (ParseDone /\ InComposite /\ ~parseRun.schema.async
       /\ parseRun.info.abortEarly /\ FailedVisits(parseRun) # {})
        => LET k == FirstFailedVisit(parseRun) IN
           /\ Len(parseRun.visits) = k
           /\ ~parseRun.piped /\ parseRun.pipeCalls = <<>>
           /\ parseRun.result.tag = "err"
           /\ NoPath(parseRun.result.issues) = NoPath(parseRun.visits[k].res.issues)
           /\ ~(parseRun.schema.kind = "object" /\ parseRun.schema.impl = "_parse")
                 => parseRun.result = parseRun.visits[k].res

\* A map of two entries whose first key fails under abortEarly: neither the
\* first value nor the second entry was parsed, although a pipe is declared.
C4_Witness ==
    /\ ParseDone /\ InComposite /\ ~parseRun.schema.async
    /\ parseRun.info.abortEarly
    /\ parseRun.schema.kind = "map"
    /\ parseRun.schema.pipe # <<>>
    /\ Len(parseRun.tasks) = 4
    /\ Len(parseRun.visits) = 1
    /\ parseRun.visits[1].side = "key"
    /\ parseRun.result.tag = "err"

\* The completed child tasks, in completion order, that failed and signal it.
FailedInOrder(f) ==
    {k \in DOMAIN f.order : /\ ~Success(f.visits[f.order[k]].res)
                            /\ f.tasks[f.order[k]].side # "rest"}
FirstFailedInOrder(f) ==
    f.order[CHOOSE k \in FailedInOrder(f) : \A j \in FailedInOrder(f) : k <= j]

\* C5: with abortEarly = true an async composite returns, whatever the order
\* in which its children complete, the failing result of the child that
\* fails first: the parse can resume as soon as that child has failed, and
\* no child completing before or after it changes the result.
C5_AsyncAbortFirstFailureWins ==
    (InComposite /\ parseRun.schema.async /\ parseRun.info.abortEarly
       /\ FailedInOrder(parseRun) # {})
        => LET r == parseRun.visits[FirstFailedInOrder(parseRun)].res IN
           /\ parseRun.pc = "children" => parseRun.join = [state |-> "rejected", reason |-> r]
           /\ parseRun.pc = "done" => parseRun.result = r

\* The parse has returned the failure of a child that completed after a
\* succeeding one, while another child is still running.
C5_Witness ==
    /\ ParseDone /\ InComposite /\ parseRun.schema.async /\ parseRun.info.abortEarly
    /\ Len(parseRun.order) = 2
    /\ Success(parseRun.visits[parseRun.order[1]].res)
    /\ ~Success(parseRun.visits[parseRun.order[2]].res)
    /\ Pending(parseRun) # {}
    /\ parseRun.result = parseRun.visits[parseRun.order[2]].res

\* The number of child parses C6 requires of a composite.
RECURSIVE CountUnblocked(_, _)
CountUnblocked(e, i) ==
    IF i > Len(e) THEN 0
    ELSE (IF e[i][1] \in {"__proto__", "prototype", "constructor"} THEN 0 ELSE 1)
         + CountUnblocked(e, i + 1)
ExpectedChildren(s, v) ==
    CASE s.kind = "object" -> Len(s.entries)
      [] s.kind \in {"array", "tuple"} -> Len(v.a)
      [] s.kind = "set" -> Len(v.m)
      [] s.kind = "map" -> 2 * Len(v.e)
      [] s.kind = "record" -> 2 * CountUnblocked(v.e, 1)

CountIn(is, x) == Cardinality({i \in DOMAIN is : is[i] = x})
RECURSIVE FailedIssues(_, _)
FailedIssues(visits, i) ==
    IF i > Len(visits) THEN <<>>
    ELSE (IF Success(visits[i].res) THEN <<>> ELSE NoPath(visits[i].res.issues))
         \o FailedIssues(visits, i + 1)
SameIssues(a, b) ==
    /\ Len(a) = Len(b)
    /\ \A i \in DOMAIN a : CountIn(a, a[i]) = CountIn(b, a[i])

\* C6: with abortEarly = false a composite whose type gate passes parses
\* every child; it fails when some child fails, with every failing child's
\* issues exactly once, and otherwise returns what its pipe returns.
C6_NoAbortVisitsAllChildren ==
    (ParseDone /\ InComposite /\ ~parseRun.info.abortEarly)
        => /\ Len(parseRun.visits) = ExpectedChildren(parseRun.schema, parseRun.input)
           /\ FailedVisits(parseRun) # {}
                 => /\ parseRun.result.tag = "err"
                    /\ SameIssues(NoPath(parseRun.result.issues),
                                  FailedIssues(parseRun.visits, 1))
           /\ FailedVisits(parseRun) = {}
                 => /\ parseRun.piped
                    /\ parseRun.schema.pipe = <<>> => Success(parseRun.result)

\* The options that accept the input.
Accepting(f) ==
    {i \in DOMAIN f.schema.options :
        Success(Parse(f.schema.options[i], f.input, f.info).result)}
FirstAccepting(f) == CHOOSE i \in Accepting(f) : \A j \in Accepting(f) : i <= j

\* C7: when some option accepts the input, union and unionAsync succeed and
\* the output is the output of the first option, in declaration order, that
\* accepts it.
C7_UnionFirstMatchOutput ==
    (IsUnion /\ Accepting(parseRun) # {})
        => parseRun.result =
              Ok(Parse(parseRun.schema.options[FirstAccepting(parseRun)],
                       parseRun.input, parseRun.info).result.output)

VisitsOf(f, i) == {k \in DOMAIN f.visits : f.visits[k].entry = i}

\* C8: during one parse of a union each option's parse is invoked at most
\* once, and the option that succeeds exactly once.
C8_UnionOptionsParsedOnce ==
    IsUnion =>
        /\ \A i \in DOMAIN parseRun.schema.options :
              Cardinality(VisitsOf(parseRun, i)) <= 1
        /\ Accepting(parseRun) # {}
              => Cardinality(VisitsOf(parseRun, FirstAccepting(parseRun))) = 1

RECURSIVE OptionIssues(_, _)
OptionIssues(f, i) ==
    IF i > Len(f.schema.options) THEN <<>>
    ELSE Parse(f.schema.options[i], f.input, f.info).result.issues
         \o OptionIssues(f, i + 1)

\* C9: when every option fails, every option was tried in declaration order
\* and the result is a failure with exactly one issue, of reason 'type' and
\* validation 'union', whose nested issues are the options' issues in order.
C9_UnionExhaustion ==
    (IsUnion /\ Accepting(parseRun) = {})
        => /\ [k \in DOMAIN parseRun.visits |-> parseRun.visits[k].entry]
                 = [k \in DOMAIN parseRun.schema.options |-> k]
           /\ parseRun.result.tag = "err"
           /\ Len(parseRun.result.issues) = 1
           /\ parseRun.result.issues[1].reason = "type"
           /\ parseRun.result.issues[1].validation = "union"
           /\ parseRun.result.issues[1].issues = OptionIssues(parseRun, 1)

OutputKeys(v) == {v.e[i][1] : i \in DOMAIN v.e}
DeclaredKeys(s) == {s.entries[i][1] : i \in DOMAIN s.entries}

\* C10: when an object schema succeeds with an empty pipe, the output is a
\* mapping built by the parse whose keys are exactly the declared keys, each
\* holding the output of its child schema on the input's value at that key.
C10_ObjectOutputIsDeclaredKeys ==
    (ParseDone /\ InComposite /\ parseRun.schema.kind = "object"
       /\ parseRun.schema.pipe = <<>> /\ Success(parseRun.result))
        => LET out == parseRun.result.output
               s == parseRun.schema
           IN /\ out.t = "object"
              /\ OutputKeys(out) = DeclaredKeys(s)
              /\ Len(out.e) = Len(s.entries)
              /\ \A i \in DOMAIN s.entries :
                    /\ parseRun.visits[i].slot = Str(s.entries[i][1])
                    /\ parseRun.tasks[i].input = Lookup(parseRun.input, s.entries[i][1])
                    /\ Lookup(out, s.entries[i][1]) = parseRun.visits[i].res.output

\* An object input with an undeclared key "x" and no key "a" succeeds: the
\* output has "a" (undefined) and the transformed "b", and no "x".
C10_Witness ==
    /\ ParseDone /\ InComposite /\ parseRun.schema.kind = "object"
    /\ parseRun.schema.pipe = <<>> /\ Success(parseRun.result)
    /\ HasKey(parseRun.input.e, "x")
    /\ ~HasKey(parseRun.input.e, "a")
    /\ ~HasKey(parseRun.result.output.e, "x")
    /\ Lookup(parseRun.result.output, "a") = Undefined
    /\ Lookup(parseRun.input, "b") = Num(0)
    /\ Lookup(parseRun.result.output, "b") = Num(2)

KeySeq(e) == [i \in DOMAIN e |-> e[i][1]]

\* C11: whatever the order in which the children of an async composite
\* complete, a successful parse has its output in declaration order: the
\* keys of objectAsync's output are the shape's keys in declaration order,
\* and arrayAsync and tupleAsync hold child i's output at position i.
C11_AsyncOutputOrderDeterministic ==
    (ParseDone /\ InComposite /\ parseRun.schema.async
       /\ parseRun.schema.kind \in {"object", "array", "tuple"}
       /\ Success(parseRun.result))
        => LET out == parseRun.result.output IN
           IF parseRun.schema.kind = "object"
           THEN KeySeq(out.e) = KeySeq(parseRun.schema.entries)
           ELSE /\ Len(out.a) = Len(parseRun.tasks)
                /\ \A i \in DOMAIN parseRun.tasks :
                      out.a[i] = parseRun.visits[i].res.output

InRecord == InComposite /\ parseRun.schema.kind = "record"
BlockedNames == {"__proto__", "prototype", "constructor"}
HasBlockedKey(e) == \E i \in DOMAIN e : e[i][1] \in BlockedNames
\* Every key of the entries is the output of a key parse that was made.
WrittenByKeyTasks(e) ==
    \A j \in DOMAIN e :
        \E i \in DOMAIN parseRun.visits :
            /\ parseRun.tasks[i].side = "key"
            /\ Success(parseRun.visits[i].res)
            /\ parseRun.visits[i].res.output = Str(e[j][1])

\* C12: record and recordAsync never pass an input key `__proto__`,
\* `prototype` or `constructor`, or its value, to the key or value schema,
\* and never write such a key to the output, under every flag combination.
C12_RecordSkipsBlockedKeys ==
    InRecord =>
        /\ \A i \in DOMAIN parseRun.tasks :
              /\ parseRun.tasks[i].slot \notin {Str(k) : k \in BlockedNames}
              /\ parseRun.tasks[i].side = "key"
                    => parseRun.tasks[i].input \notin {Str(k) : k \in BlockedNames}
        /\ Len(parseRun.tasks) = 2 * CountUnblocked(parseRun.input.e, 1)
        /\ WrittenByKeyTasks(parseRun.output.e)
        /\ (parseRun.pc = "done" /\ Success(parseRun.result)
              /\ parseRun.result.output.t = "object")
              => WrittenByKeyTasks(parseRun.result.output.e)

\* A record with a blocked key before the key "a" has been parsed with
\* success: "a" alone was parsed and written.
C12_Witness ==
    /\ InRecord /\ parseRun.pc = "done" /\ Success(parseRun.result)
    /\ Len(parseRun.input.e) = 2
    /\ parseRun.input.e[1][1] \in BlockedNames
    /\ parseRun.input.e[2][1] = "a"
    /\ Len(parseRun.tasks) = 2
    /\ KeySeq(parseRun.result.output.e) = <<"a">>

\* C13: when record or recordAsync succeeds with an empty pipe, the output
\* has, for every input key that is not blocked, one entry from the key
\* schema's output to the value schema's output, and no other entry; the
\* empty-string key and falsy value outputs included.
C13_RecordOutputEntries ==
    (InRecord /\ parseRun.pc = "done" /\ parseRun.schema.pipe = <<>>
       /\ Success(parseRun.result))
        => LET out == parseRun.result.output
               n == CountUnblocked(parseRun.input.e, 1)
           IN /\ out.t = "object"
              /\ Len(out.e) = n
              /\ \A i \in 1..n :
                    LET k == parseRun.visits[2 * i - 1].res.output
                        w == parseRun.visits[2 * i].res.output
                    IN /\ HasKey(out.e, k.s)
                       /\ Lookup(out, k.s) = w

InArray == InComposite /\ parseRun.schema.kind = "array" /\ parseRun.pc = "done"
ChildOutputs(f) == [i \in DOMAIN f.visits |-> f.visits[i].res.output]

\* C14: for array and arrayAsync on a sequence, when every element succeeds
\* the result is the pipe's result on a sequence of the input's length whose
\* position i holds the item schema's output for element i; when some
\* element fails with abortEarly = false the result is a failure carrying
\* the failing elements' issues.
C14_ArrayResult ==
    InArray =>
        /\ FailedVisits(parseRun) = {}
              => /\ Len(parseRun.visits) = Len(parseRun.input.a)
                 /\ parseRun.result =
                       PipeRunFrom(PipeEnter(IF parseRun.schema.async THEN "async" ELSE "sync",
                                             Arr(ChildOutputs(parseRun)),
                                             parseRun.schema.pipe,
                                             GetPipeInfo(parseRun.info, "array"))).result
        /\ (FailedVisits(parseRun) # {} /\ ~parseRun.info.abortEarly)
              => /\ parseRun.result.tag = "err"
                 /\ SameIssues(NoPath(parseRun.result.issues),
                               FailedIssues(parseRun.visits, 1))

InTupleRest ==
    /\ InComposite /\ parseRun.pc = "done"
    /\ parseRun.schema.kind = "tuple" /\ parseRun.schema.rest # NoSchema
RestIndices(f) == (Len(f.schema.items) + 1)..Len(f.input.a)
RestFailed(f) == {i \in RestIndices(f) \cap DOMAIN f.visits : ~Success(f.visits[i].res)}
IssueSet(is) == {is[i] : i \in DOMAIN is}

\* C15: tuple and tupleAsync parse every element past the declared items
\* through the rest schema; when such an element fails the parse fails with
\* its issues (with one failing child's issues alone under abortEarly), and
\* on success the output holds the rest schema's output at each such index.
C15_TupleRestElements ==
    InTupleRest =>
        /\ \A i \in RestIndices(parseRun) :
              /\ parseRun.tasks[i].schema = parseRun.schema.rest
              /\ parseRun.tasks[i].input = parseRun.input.a[i]
        /\ (~parseRun.info.abortEarly \/ FailedVisits(parseRun) = {})
              => Len(parseRun.visits) = Len(parseRun.input.a)
        /\ RestFailed(parseRun) # {}
              => /\ parseRun.result.tag = "err"
                 /\ parseRun.info.abortEarly
                       => \E i \in FailedVisits(parseRun) :
                             parseRun.result = parseRun.visits[i].res
                 /\ ~parseRun.info.abortEarly
                       => \A i \in RestFailed(parseRun) :
                             IssueSet(parseRun.visits[i].res.issues)
                                \subseteq IssueSet(parseRun.result.issues)
        /\ (Success(parseRun.result) /\ parseRun.schema.pipe = <<>>)
              => \A i \in RestIndices(parseRun) :
                    parseRun.result.output.a[i] = parseRun.visits[i].res.output

GatedKinds ==
    {"object", "array", "tuple", "set", "map", "record", "special",
     "bigint", "symbol", "nan", "void", "literal", "blob"}
GateFailed ==
    /\ ParseDone /\ parseRun.schema.kind \in GatedKinds
    /\ ~Gate(parseRun.schema, parseRun.input)
ConfiguredError(s) == IF "error" \in DOMAIN s THEN s.error ELSE ""

\* C16: when the input fails a schema's type gate, parse returns a failure
\* with exactly one issue whose validation is the schema's kind, whose input
\* is the rejected input and whose message is the configured error, or
\* 'Invalid type' without one; no child is parsed and no pipe action invoked.
C16_TypeGateFailure ==
    GateFailed =>
        /\ parseRun.result.tag = "err"
        /\ Len(parseRun.result.issues) = 1
        /\ parseRun.result.issues[1].reason = "type"
        /\ parseRun.result.issues[1].validation = parseRun.schema.kind
        /\ parseRun.result.issues[1].input = parseRun.input
        /\ parseRun.result.issues[1].message =
              (IF ConfiguredError(parseRun.schema) = "" THEN "Invalid type"
               ELSE ConfiguredError(parseRun.schema))
        /\ parseRun.tasks = <<>> /\ parseRun.visits = <<>>
        /\ ~parseRun.piped /\ parseRun.pipeCalls = <<>>

\* A map schema with children, a pipe and a configured error has rejected
\* an array.
C16_Witness ==
    /\ GateFailed
    /\ parseRun.schema.kind = "map" /\ parseRun.schema.pipe # <<>>
    /\ ConfiguredError(parseRun.schema) = "E"
    /\ parseRun.input = Arr(<<Num(1)>>)
    /\ parseRun.result.issues[1].message = "E"

InTuple ==
    /\ parseRun.pc \in {"children", "done"}
    /\ parseRun.schema.kind = "tuple"
\* The inputs C17 says the gate rejects.
TupleMustReject(s, v) ==
    \/ v.t # "array"
    \/ s.rest = NoSchema /\ Len(v.a) # Len(s.items)
    \/ s.rest # NoSchema /\ Len(v.a) < Len(s.items)
TupleRejected(f) ==
    /\ f.pc = "done" /\ f.tasks = <<>>
    /\ f.result.tag = "err"
    /\ Len(f.result.issues) = 1
    /\ f.result.issues[1].validation = "tuple"
    /\ f.result.issues[1].input = f.input

\* C17: tuple and tupleAsync fail at the type gate exactly when the input is
\* not a sequence, or there is no rest schema and the length differs from
\* the number of declared items, or there is a rest schema and the length is
\* smaller; for every other input the declared items are parsed.
C17_TupleGate ==
    InTuple =>
        /\ TupleMustReject(parseRun.schema, parseRun.input) <=> TupleRejected(parseRun)
        /\ ~TupleMustReject(parseRun.schema, parseRun.input)
              => /\ Len(parseRun.tasks) = Len(parseRun.input.a)
                 /\ \A i \in DOMAIN parseRun.schema.items :
                       /\ parseRun.tasks[i].schema = parseRun.schema.items[i]
                       /\ parseRun.tasks[i].input = parseRun.input.a[i]
                 /\ Len(parseRun.visits) >= 1
                 /\ (FailedVisits(parseRun) = {} /\ parseRun.pc = "done")
                       => Len(parseRun.visits) = Len(parseRun.input.a)

\* A tuple with a rest schema has taken an input longer than its declared
\* items and parsed every element.
C17_Witness ==
    /\ InTuple /\ parseRun.pc = "done"
    /\ parseRun.schema.rest # NoSchema
    /\ Len(parseRun.schema.items) = 1
    /\ parseRun.input.t = "array" /\ Len(parseRun.input.a) = 2
    /\ Len(parseRun.visits) = 2
    /\ ~TupleRejected(parseRun)

CompositeKinds == {"object", "array", "tuple", "set", "map", "record"}

\* The value a path item's key selects in a container.
ValueAt(s, v, item) ==
    CASE s.kind \in {"object", "record"} -> Lookup(v, item.key.s)
      [] s.kind \in {"array", "tuple"} -> v.a[item.key.n + 1]
      [] s.kind = "set" -> v.m[item.key.n + 1]
      [] s.kind = "map" -> LookupFrom(v.e, item.key, 1)
\* The key of a path item is one the composite parses in this container.
KeyParsed(s, v, item) ==
    CASE s.kind = "object" ->
            item.key.t = "string" /\ \E i \in DOMAIN s.entries : s.entries[i][1] = item.key.s
      [] s.kind = "record" -> item.key.t = "string" /\ HasKey(v.e, item.key.s)
      [] s.kind \in {"array", "tuple"} ->
            item.key.t = "number" /\ (item.key.n + 1) \in DOMAIN v.a
      [] s.kind = "set" -> item.key.t = "number" /\ (item.key.n + 1) \in DOMAIN v.m
      [] s.kind = "map" -> \E i \in DOMAIN v.e : v.e[i][1] = item.key
\* The schema that parses what a path item selects.
SchemaAt(s, item, keySide) ==
    CASE s.kind = "object" ->
            s.entries[CHOOSE i \in DOMAIN s.entries : s.entries[i][1] = item.key.s][2]
      [] s.kind = "array" -> s.item
      [] s.kind = "tuple" ->
            IF item.key.n + 1 <= Len(s.items) THEN s.items[item.key.n + 1] ELSE s.rest
      [] s.kind = "set" -> s.value
      [] s.kind \in {"map", "record"} -> IF keySide THEN s.key ELSE s.value

\* Following a path from a schema and its input: whether every item names
\* the composite at its level and a key and value of its input, and the
\* schema and value the path ends at.
RECURSIVE Walk(_, _, _, _, _)
Walk(s, v, path, i, origin) ==
    IF i > Len(path) THEN [ok |-> TRUE, schema |-> s, value |-> v]
    ELSE IF ~(/\ s.kind \in CompositeKinds
              /\ path[i].schema = s.kind
              /\ Gate(s, v)
              /\ KeyParsed(s, v, path[i])
              /\ path[i].value = ValueAt(s, v, path[i]))
    THEN [ok |-> FALSE, schema |-> s, value |-> v]
    ELSE LET keySide == i = Len(path) /\ origin = "key" IN
         Walk(SchemaAt(s, path[i], keySide),
              IF keySide THEN path[i].key ELSE path[i].value,
              path, i + 1, origin)

FailedComposite ==
    /\ ParseDone /\ parseRun.schema.kind \in CompositeKinds
    /\ parseRun.result.tag = "err"
Located(issue) == Walk(parseRun.schema, parseRun.input, issue.path, 1, issue.origin)

\* C18 as stated: for every issue a parse of nested composites returns, the
\* path holds one item per composite level, outermost first, and following
\* it from the root input reaches exactly the value recorded as the issue's
\* input (the key, for an issue of a map's or record's key schema).
C18_PathLocatesIssueInput ==
    FailedComposite =>
        \A k \in DOMAIN parseRun.result.issues :
            LET issue == parseRun.result.issues[k] IN
            /\ Located(issue).ok
            /\ Located(issue).value = issue.input

Bare(issue) == [issue EXCEPT !.path = <<>>, !.origin = ""]

\* C18 as amended: the path of every issue leads, one item per composite
\* level, from the root input to the input of the schema that emitted it;
\* a type issue records exactly that value as its input, and a pipe issue
\* records the value the schema's pipe handed to the failing action.
C18_PathLocatesEmitter ==
    FailedComposite =>
        \A k \in DOMAIN parseRun.result.issues :
            LET issue == parseRun.result.issues[k]
                w == Located(issue)
            IN /\ w.ok
               /\ issue.reason = "type"
                     => /\ w.value = issue.input
                        /\ issue.validation = w.schema.kind
                        /\ ~Gate(w.schema, w.value)
               /\ issue.reason # "type"
                     => /\ issue.reason = w.schema.kind
                        /\ Gate(w.schema, w.value)
                        /\ \E j \in DOMAIN w.schema.pipe :
                              w.schema.pipe[j].kind = issue.validation
                        /\ issue.path = <<>> => issue.input = parseRun.output
                        /\ issue.path # <<>>
                              => \E j \in DOMAIN Parse(w.schema, w.value, parseRun.info).result.issues :
                                    Bare(Parse(w.schema, w.value, parseRun.info).result.issues[j])
                                       = Bare(issue)

\* A parse has returned the pipe issue of a nested object whose output
\* lacks a key of its input: the path leads to the nested input, the
\* issue's input is the nested output.
C18_Witness ==
    /\ FailedComposite
    /\ \E k \in DOMAIN parseRun.result.issues :
          LET issue == parseRun.result.issues[k] IN
          /\ Len(issue.path) = 1 /\ issue.reason = "object"
          /\ issue.input = Obj(<< <<"a", Num(1)>> >>)
          /\ issue.path[1].value = Obj(<< <<"x", Num(0)>>, <<"a", Num(1)>> >>)


PipeOnly == Info(FALSE, TRUE)
\* The first action of a pipe of validations that rejects a value.
FirstRejecting(pipe, v) ==
    CHOOSE j \in DOMAIN pipe :
        /\ ActionRejects(pipe[j], v)
        /\ \A k \in 1..(j - 1) : ~ActionRejects(pipe[k], v)
Validations == {"min_value", "equal", "min_length", "max_length", "size", "custom"}
\* A visit of a leaf whose pipe of validations rejects the value it got.
PipeRejects(f, i) ==
    /\ f.tasks[i].schema.kind = "special"
    /\ Gate(f.tasks[i].schema, f.tasks[i].input)
    /\ \A j \in DOMAIN f.tasks[i].schema.pipe : f.tasks[i].schema.pipe[j].kind \in Validations
    /\ \E j \in DOMAIN f.tasks[i].schema.pipe :
          ActionRejects(f.tasks[i].schema.pipe[j], f.tasks[i].input)

\* C19: with abortPipeEarly = true and abortEarly = false a failing action
\* in the pipe of one child stops only that pipe: every sibling is parsed,
\* each aborted pipe yields the issue of its first failing action alone, and
\* the composite's result carries the issues of all failing children.
C19_AbortPipeEarlyIsLocal ==
    (ParseDone /\ InComposite /\ parseRun.info = PipeOnly)
        => /\ Len(parseRun.visits) = ExpectedChildren(parseRun.schema, parseRun.input)
           /\ \A i \in DOMAIN parseRun.visits :
                 PipeRejects(parseRun, i)
                    => LET t == parseRun.tasks[i] IN
                       /\ parseRun.visits[i].res.tag = "err"
                       /\ Len(parseRun.visits[i].res.issues) = 1
                       /\ parseRun.visits[i].res.issues[1].validation =
                             t.schema.pipe[FirstRejecting(t.schema.pipe, t.input)].kind
           /\ FailedVisits(parseRun) # {}
                 => /\ parseRun.result.tag = "err"
                    /\ SameIssues(NoPath(parseRun.result.issues),
                                  FailedIssues(parseRun.visits, 1))

\* C20: in every run of executePipe and executePipeAsync, under every
\* combination of abortEarly and abortPipeEarly, each action of the pipe is
\* invoked at most once and the invocations occur in strictly increasing
\* declaration position.
C20_PipeActionsOnceInOrder ==
    PipeActive =>
        /\ \A i \in DOMAIN pipeRun.calls : pipeRun.calls[i].pos \in DOMAIN pipeRun.pipe
        /\ \A i, j \in DOMAIN pipeRun.calls :
              i < j => pipeRun.calls[i].pos < pipeRun.calls[j].pos

\* A run of the async engine over three actions, the first of which failed,
\* has returned after calling all three.
C20_Witness ==
    /\ PipeDone /\ pipeRun.engine = "async"
    /\ Len(pipeRun.pipe) = 3 /\ Len(pipeRun.calls) = 3
    /\ ~Success(pipeRun.calls[1].res)
    /\ Success(pipeRun.calls[2].res)

\* C21: in executePipeAsync no two actions of one pipe are in flight at the
\* same time: only the action invoked last can be unresolved, so the action
\* at the next position is invoked after the one before it has resolved, and
\* it receives that action's output when that action succeeded.
C21_AsyncPipeSequential ==
    (PipeActive /\ pipeRun.engine = "async") =>
        /\ \A i \in DOMAIN pipeRun.calls :
              i < Len(pipeRun.calls) => pipeRun.calls[i].pos # pipeRun.inflight
        /\ pipeRun.inflight # 0
              => pipeRun.calls[Len(pipeRun.calls)].pos = pipeRun.inflight
        /\ \A i \in DOMAIN pipeRun.calls :
              (i < Len(pipeRun.calls) /\ Success(pipeRun.calls[i].res))
                 => /\ pipeRun.calls[i + 1].pos = pipeRun.calls[i].pos + 1
                    /\ pipeRun.calls[i + 1].arg = pipeRun.calls[i].res.output

\* The async engine has invoked a second action while the first, a
\* transformation that changed its input, has resolved: the second action
\* is in flight on the transformed value.
C21_Witness ==
    /\ pipeRun.pc = "loop" /\ pipeRun.engine = "async"
    /\ Len(pipeRun.calls) = 2 /\ pipeRun.inflight = 2
    /\ Success(pipeRun.calls[1].res)
    /\ pipeRun.calls[1].res.output # pipeRun.calls[1].arg
    /\ pipeRun.calls[2].arg = pipeRun.calls[1].res.output

\* The parse is one of an async composite whose child tasks were started.
InAsyncComposite == InComposite /\ parseRun.schema.async /\ parseRun.join.state # "none"

\* C22: in an async composite with abortEarly = false every child is started
\* before any of them is awaited (all tasks exist while the parse waits),
\* and the composite's first pipe action is invoked only after every child
\* task has completed and only if no child reported an issue.
C22_PipeAfterAllChildren ==
    (InAsyncComposite /\ ~parseRun.info.abortEarly) =>
        /\ Len(parseRun.tasks) = ExpectedChildren(parseRun.schema, parseRun.input)
        /\ Len(parseRun.visits) = Len(parseRun.tasks)
        /\ parseRun.pipeCalls # <<>>
              => /\ Pending(parseRun) = {}
                 /\ FailedVisits(parseRun) = {}

C24_AsyncParseNeverRejects ==
    InAsyncComposite =>
        /\ parseRun.result.tag # "rejected"
        /\ (parseRun.info.abortEarly /\ FailedInOrder(parseRun) # {})
              => /\ parseRun.join.state = "rejected"
                 /\ parseRun.join.reason.tag = "err"
                 /\ ParseDone => /\ parseRun.result.tag = "err"
                                 /\ parseRun.result = parseRun.join.reason
        /\ parseRun.join.state = "rejected" => parseRun.info.abortEarly

\* Under abortEarly two child tasks have failed one after the other with
\* different results, the second after the parse had resolved with the
\* failure of the first.
C24_Witness ==
    /\ InAsyncComposite /\ ParseDone /\ parseRun.info.abortEarly
    /\ Cardinality(FailedInOrder(parseRun)) = 2
    /\ \E k \in DOMAIN parseRun.order :
          /\ k > 1
          /\ ~Success(parseRun.visits[parseRun.order[k]].res)
          /\ parseRun.visits[parseRun.order[k]].res # parseRun.result
    /\ parseRun.result = parseRun.visits[parseRun.order[1]].res
    /\ parseRun.result.tag = "err"

\* The outcomes of the methods for the schema of the parse that has returned.
Thrower == IF parseRun.schema.async THEN parseAsync(parseRun.result) ELSE parse(parseRun.result)
Safe == IF parseRun.schema.async THEN safeParseAsync(parseRun.result)
        ELSE safeParse(parseRun.result)

\* C27: parse and parseAsync return the output of the schema's result when
\* the schema's parse succeeds and otherwise raise a ValiError built from
\* exactly the result's issues; safeParse and safeParseAsync never raise and
\* return {success: true, data: output} or {success: false, error} with the
\* success value of the schema's result.
C27_ParseMethods ==
    ParseDone =>
        LET r == parseRun.result IN
        /\ Success(r) => /\ Thrower = Return(r.output)
                         /\ Safe = Return([success |-> TRUE, data |-> r.output])
        /\ ~Success(r) => /\ Thrower.kind = "throw"
                          /\ Thrower.value.name = "ValiError"
                          /\ Thrower.value.issues = r.issues
                          /\ Safe.kind = "return"
                          /\ ~Safe.value.success
                          /\ Safe.value.error.name = "ValiError"
                          /\ Safe.value.error.issues = r.issues

InWrapper == ParseDone /\ parseRun.schema.kind = "non_nullable"

\* C28: nonNullableAsync(w) on the input null returns a failure with exactly
\* one issue of reason 'type' and validation 'non_nullable' without calling
\* w; on every other input it calls w.parse exactly once with the same input
\* and info and returns that result unchanged.
C28_NonNullableAsync ==
    InWrapper =>
        IF parseRun.input = Null
        THEN /\ parseRun.result.tag = "err"
             /\ Len(parseRun.result.issues) = 1
             /\ parseRun.result.issues[1].reason = "type"
             /\ parseRun.result.issues[1].validation = "non_nullable"
             /\ parseRun.visits = <<>>
        ELSE /\ Len(parseRun.visits) = 1
             /\ Len(parseRun.tasks) = 1
             /\ parseRun.tasks[1].schema = parseRun.schema.wrapped
             /\ parseRun.tasks[1].input = parseRun.input
             /\ parseRun.tasks[1].info = parseRun.info
             /\ parseRun.result = parseRun.visits[1].res
             /\ parseRun.result =
                   Parse(parseRun.schema.wrapped, parseRun.input, parseRun.info).result

\* The wrapper around void has accepted undefined: the wrapped schema was
\* called once and its success returned.
C28_Witness ==
    /\ InWrapper
    /\ parseRun.schema.wrapped = VoidType
    /\ parseRun.input = Undefined
    /\ Len(parseRun.visits) = 1
    /\ parseRun.result = Ok(Undefined)

\* C29: the output mapping of record and recordAsync never has `__proto__`,
\* `prototype` or `constructor` as a key, also when the key schema's pipe
\* transforms an allowed input key into one of these names.
C29_RecordOutputHasNoBlockedKey ==
    InRecord =>
        /\ ~HasBlockedKey(parseRun.output.e)
        /\ (parseRun.pc = "done" /\ Success(parseRun.result)
              /\ parseRun.result.output.t = "object")
              => ~HasBlockedKey(parseRun.result.output.e)

---------------------------------------------------------------------------
(* Claims about parsing with one schema instance *)

\* The issues of a result on the store.
IssuesAt(res) == IF res.ref = 0 THEN <<>> ELSE instance.heap[res.ref]
SyncCalls == IF instance.pc = "created" THEN DOMAIN instance.calls ELSE {}

AsyncCalls == IF instance.pc = "created" THEN DOMAIN instance.frames ELSE {}

\* The frame of a parse run alone whose children complete in the given order.
RECURSIVE Replay(_, _, _)
Replay(f, order, k) ==
    IF k > Len(order) THEN f ELSE Replay(AsyncSettle(f, order[k]), order, k + 1)
Alone(fr) == AsyncResume(Replay(AsyncStart(fr.schema, fr.input, fr.info), fr.order, 1))

\* Some parse made so far has passed the type gate.
GatePassed ==
    \/ \E i \in SyncCalls : Gate(instance.schema, instance.calls[i].input)
    \/ \E c \in AsyncCalls : Gate(instance.schema, instance.frames[c].input)

\* The cache is filled exactly by a parse that passes the type gate, and
\* every overlapping parse that has returned has the result of a parse
\* run alone with the same completion order of its children.
CacheAndCallsLocal ==
    /\ instance.cached.has <=> GatePassed
    /\ \A c \in AsyncCalls :
          LET fr == instance.frames[c] IN
          (fr.pc = "done" /\ Gate(fr.schema, fr.input))
             => /\ fr.schema.entries = instance.cached.v
                /\ fr.result = Alone(fr).result

\* A step fills the empty cache with the entries of the shape as it is then,
\* and leaves a filled cache as it is.
CacheStep ==
    /\ instance.cached.has => instance'.cached = instance.cached
    /\ (~instance.cached.has /\ instance'.cached.has)
          => instance'.cached.v = instance.schema.entries

HandedResults == IF instance.pc = "created" THEN DOMAIN instance.handed ELSE {}

\* C30 as stated: after the call, the issues array returned by each pipe
\* action or child schema holds exactly the issues that action or child put
\* in it.
C30_HandedResultsUnmodified ==
    \A h \in HandedResults :
        NoPath(instance.heap[instance.handed[h].ref]) = NoPath(instance.handed[h].own)

\* C30: only the issues array of the first failing action or child is
\* appended to.  It keeps its own issues in front, and every issue after
\* them is an issue of a later failing action or sibling; the array of every
\* later failing action or child holds exactly its own issues.
C30_OnlyFirstFailureGrows ==
    \A h \in HandedResults :
        LET e == instance.handed[h]
            now == NoPath(instance.heap[e.ref])
            own == NoPath(e.own)
        IN /\ Len(now) >= Len(own)
           /\ SubSeq(now, 1, Len(own)) = own
           /\ ~e.first => now = own
           /\ \A i \in (Len(own) + 1)..Len(now) :
                 \E k \in HandedResults :
                    /\ k > h /\ ~instance.handed[k].first
                    /\ instance.handed[k].ref # e.ref
                    /\ \E j \in DOMAIN instance.handed[k].own :
                          NoPath(instance.handed[k].own)[j] = now[i]

\* The first action of a child's pipe failed and its array took the issue of
\* the second action; the child returned that array to the object, where it
\* took the issues of the failing sibling too, while the sibling's own array
\* stayed as it was returned.
C30_Witness ==
    /\ instance.pc = "created"
    /\ \E h, k, m \in DOMAIN instance.handed :
          /\ h < k /\ k < m
          /\ instance.handed[h].ref = instance.handed[k].ref
          /\ instance.handed[h].first /\ instance.handed[k].first
          /\ Len(instance.handed[h].own) < Len(instance.handed[k].own)
          /\ Len(instance.handed[k].own) < Len(instance.heap[instance.handed[k].ref])
          /\ ~instance.handed[m].first
          /\ instance.handed[m].ref # instance.handed[k].ref
          /\ Len(instance.heap[instance.handed[m].ref]) = Len(instance.handed[m].own)

=============================================================================
